---------------------------- MODULE Spec2Model ----------------------------
(***************************************************************************)
(* Green Diode's Dental Clinic voice receptionist (DentalBot v2).          *)
(*                                                                         *)
(* The model covers the tool dispatch of the call bridge                   *)
(* (main.py: handle_function_call, receive_from_openai), the appointment   *)
(* and verification executors and the tables they work on.  Several phone  *)
(* calls run side by side; the executors are synchronous, so every tool    *)
(* dispatch is one atomic step, while the two sends that follow it are     *)
(* await points at which the other tasks of the process can run.  It also  *)
(* covers barge-in and the three tasks of a call, the connection pool      *)
(* (db/db_connection.py), complaints, supplier calls and the staff portal  *)
(* (management_console.py).                                                *)
(*                                                                         *)
(* Strings the code transforms (names, phone numbers) are sequences of     *)
(* one-character strings; date, time and date-of-birth phrases are records *)
(* naming the written form the parsers recognise.                          *)
(***************************************************************************)
EXTENDS Integers, Sequences, FiniteSets, TLC

VARIABLES
    patients,       \* table patients: row i has patient_id i
    appointments,   \* table appointments: row i has appointment_id i
    orders,         \* table patient_orders
    session,        \* per call: the session dictionary (make_new_session)
    ws,             \* per call: the model socket, "open" or "closed"
    last,           \* the tool call handled last: its result and what was sent
    avail,          \* per call: the slot the caller was last told is free
    today,          \* date.today(), as a proleptic Gregorian ordinal
    clock,          \* time.time(), in milliseconds since the process started
    tasks,          \* per call: the tasks of handle_media_stream and its stage
    pool,           \* the connection pool, and the db_cursor scope run last
    complaints,     \* table complaints
    portal,         \* the staff portal: the browser session and its last answer
    calc,           \* a function of the code on its own: its argument and result
    wire            \* per call: what has gone over the model socket so far

vars == <<patients, appointments, orders, session, ws, last, avail, today,
          clock, tasks, pool, complaints, portal, calc, wire>>

\* what the tool calls of the bridge leave alone
aux == <<clock, tasks, complaints, portal>>

(***************************************************************************)
(* Bounds of the model.                                                    *)
(***************************************************************************)
NumCalls    == 2    \* phone calls in progress at the same time
MaxAppts    == 2    \* appointment rows the table may hold
MaxPatients == 4    \* patient rows the table may hold

Calls == 1..NumCalls

(***************************************************************************)
(* Strings as sequences of characters.                                     *)
(***************************************************************************)
UC == <<"A","B","C","D","E","F","G","H","I","J","K","L","M",
        "N","O","P","Q","R","S","T","U","V","W","X","Y","Z">>
LC == <<"a","b","c","d","e","f","g","h","i","j","k","l","m",
        "n","o","p","q","r","s","t","u","v","w","x","y","z">>
Digits == {"0","1","2","3","4","5","6","7","8","9"}

IsUpper(ch) == \E i \in DOMAIN UC : UC[i] = ch
IsLower(ch) == \E i \in DOMAIN LC : LC[i] = ch
IsAlpha(ch) == IsUpper(ch) \/ IsLower(ch)
LowerCh(ch) == IF IsUpper(ch) THEN LC[CHOOSE i \in DOMAIN UC : UC[i] = ch] ELSE ch
UpperCh(ch) == IF IsLower(ch) THEN UC[CHOOSE i \in DOMAIN LC : LC[i] = ch] ELSE ch

\* str.lower()
Lower(s) == [i \in DOMAIN s |-> LowerCh(s[i])]

\* str.strip()
Strip(s) ==
    LET keep == {i \in DOMAIN s : s[i] # " "}
    IN  IF keep = {} THEN <<>>
        ELSE LET lo == CHOOSE i \in keep : \A j \in keep : i <= j
                 hi == CHOOSE i \in keep : \A j \in keep : i >= j
             IN  SubSeq(s, lo, hi)

\* str.title(): a letter that follows a non-letter is upper-cased, any other
\* letter lower-cased
Title(s) ==
    [i \in DOMAIN s |->
        IF i = 1 \/ ~IsAlpha(s[i - 1]) THEN UpperCh(s[i]) ELSE LowerCh(s[i])]

\* utils/text_utils.py
title_case(name) == IF name = <<>> THEN <<>> ELSE Title(Strip(name))

\* needle in hay, as Python's `in` and SQL's LIKE '%needle%' on plain text
Contains(hay, needle) ==
    \E i \in 0..(Len(hay) - Len(needle)) :
        SubSeq(hay, i + 1, i + Len(needle)) = needle

\* re.sub(r"[^\d]", "", s)
RECURSIVE OnlyDigits(_)
OnlyDigits(s) ==
    IF s = <<>> THEN <<>>
    ELSE IF Head(s) \in Digits THEN <<Head(s)>> \o OnlyDigits(Tail(s))
         ELSE OnlyDigits(Tail(s))

\* s[:n]
Prefix(s, n) == SubSeq(s, 1, IF Len(s) < n THEN Len(s) ELSE n)

PhoneCap  == 10
MinDigits == 8

\* the digits of the text, all of them
normalize_phone_uncapped(phone) ==
    IF phone = <<>> THEN <<>> ELSE OnlyDigits(phone)

\* utils/phone_utils.py
normalize_phone(phone) ==
    IF phone = <<>> THEN <<>> ELSE Prefix(OnlyDigits(phone), PhoneCap)


\* text.split()
RECURSIVE SplitWords(_, _)
SplitWords(s, cur) ==
    LET flush == IF cur = <<>> THEN <<>> ELSE <<cur>>
    IN  IF s = <<>> THEN flush
        ELSE IF Head(s) = " " THEN flush \o SplitWords(Tail(s), <<>>)
             ELSE SplitWords(Tail(s), Append(cur, Head(s)))

\* re.sub(r"[^\w]", "", word)
RECURSIVE WordChars(_)
WordChars(s) ==
    IF s = <<>> THEN <<>>
    ELSE IF IsAlpha(Head(s)) \/ Head(s) \in Digits \/ Head(s) = "_"
         THEN <<Head(s)>> \o WordChars(Tail(s))
         ELSE WordChars(Tail(s))

\* WORD_TO_DIGIT.get(word): the digit, or "" for None
WORD_TO_DIGIT(w) ==
    CASE w = <<"z","e","r","o">>     -> "0"
      [] w = <<"o","h">>             -> "0"
      [] w = <<"o">>                 -> "0"
      [] w = <<"o","n","e">>         -> "1"
      [] w = <<"t","w","o">>         -> "2"
      [] w = <<"t","h","r","e","e">> -> "3"
      [] w = <<"f","o","u","r">>     -> "4"
      [] w = <<"f","i","v","e">>     -> "5"
      [] w = <<"s","i","x">>         -> "6"
      [] w = <<"s","e","v","e","n">> -> "7"
      [] w = <<"e","i","g","h","t">> -> "8"
      [] w = <<"n","i","n","e">>     -> "9"
      [] OTHER                       -> ""

IsDigitWord(w) == w # <<>> /\ \A i \in DOMAIN w : w[i] \in Digits

\* the while loop of extract_phone_from_text, from word i on
RECURSIVE SpokenDigits(_, _)
SpokenDigits(words, i) ==
    IF i > Len(words) THEN <<>>
    ELSE LET word == WordChars(words[i])
             nxt  == IF i + 1 <= Len(words)
                     THEN WORD_TO_DIGIT(WordChars(words[i + 1])) ELSE ""
         IN  IF word = <<"d","o","u","b","l","e">> /\ nxt # ""
             THEN <<nxt, nxt>> \o SpokenDigits(words, i + 2)
             ELSE IF WORD_TO_DIGIT(word) # ""
                  THEN <<WORD_TO_DIGIT(word)>> \o SpokenDigits(words, i + 1)
                  ELSE IF IsDigitWord(word)
                       THEN word \o SpokenDigits(words, i + 1)
                       ELSE SpokenDigits(words, i + 1)

\* utils/phone_utils.py
extract_phone_from_text(text) ==
    IF text = <<>> THEN <<>>
    ELSE LET t      == Lower(Strip(text))
             digits == OnlyDigits(t)
             result == SpokenDigits(SplitWords(t, <<>>), 1)
         IN  IF Len(digits) >= MinDigits THEN Prefix(digits, PhoneCap)
             ELSE IF result # <<>> THEN Prefix(result, PhoneCap)
                  ELSE Prefix(digits, PhoneCap)

(***************************************************************************)
(* Dates of birth.  A phrase is [form, d, m, y]: the way it is written and *)
(* the numbers in it.                                                      *)
(***************************************************************************)
Dob(form, d, m, y) == [form |-> form, d |-> d, m |-> m, y |-> y]
EmptyDob == Dob("", 0, 0, 0)

IsLeap(y) == (y % 4 = 0 /\ y % 100 # 0) \/ y % 400 = 0
DaysIn(m, y) ==
    CASE m \in {4, 6, 9, 11} -> 30
      [] m = 2               -> IF IsLeap(y) THEN 29 ELSE 28
      [] OTHER               -> 31
ValidDate(d, m, y) == m \in 1..12 /\ d \in 1..DaysIn(m, y) /\ y \in 1..9999

\* a normalisation that hands the phrase on as it came
normalize_dob_asis(p) == p

\* utils/phone_utils.py: MONTH_NAMES.get(month, month) names months 1..12
normalize_dob(p) ==
    CASE p.form = "" -> p
      [] p.form = "Dth Month YYYY" -> Dob("D Month YYYY", p.d, p.m, p.y)
      [] p.form \in {"D/M/YYYY", "D-M-YYYY", "D.M.YYYY", "D M YYYY", "DD-MM-YYYY"} ->
            IF p.m \in 1..12 THEN Dob("D Month YYYY", p.d, p.m, p.y)
            ELSE Dob("D M YYYY", p.d, p.m, p.y)
      [] OTHER -> p

\* utils/date_time_utils.py: the strptime formats, tried in order
dob_to_db_format(p) ==
    CASE p.form = "" -> EmptyDob
      [] p.form \in {"D Month YYYY", "D Mon YYYY", "D-M-YYYY", "DD-MM-YYYY",
                     "D/M/YYYY", "YYYY-M-D"}
         /\ ValidDate(p.d, p.m, p.y) -> Dob("DD-MM-YYYY", p.d, p.m, p.y)
      [] OTHER -> p

(***************************************************************************)
(* Appointment dates.  A phrase is [form, keys, ord]: its written form,    *)
(* the keywords its lower-cased text contains and, for a written date, the *)
(* day it names as a proleptic Gregorian ordinal (date.toordinal(), so day *)
(* 1 is a Monday).  strftime("%Y-%m-%d") is the form "YYYY-MM-DD".         *)
(***************************************************************************)
DateP(form, keys, ord) == [form |-> form, keys |-> keys, ord |-> ord]
NoDate  == DateP("None", {}, 0)
IsoDate(n) == DateP("YYYY-MM-DD", {}, n)

\* date.weekday(): Monday is 0
weekday(n) == (n + 6) % 7

day_map == <<"monday", "tuesday", "wednesday", "thursday",
             "friday", "saturday", "sunday">>

\* a weekday phrase said on that weekday gives today
parse_date_str_same_day(p, now) ==
    IF p.form = "" THEN NoDate
    ELSE IF "today" \in p.keys THEN IsoDate(now)
    ELSE IF "tomorrow" \in p.keys THEN IsoDate(now + 1)
    ELSE IF \E i \in DOMAIN day_map : day_map[i] \in p.keys
    THEN LET i == CHOOSE k \in DOMAIN day_map :
                      /\ day_map[k] \in p.keys
                      /\ \A j \in DOMAIN day_map : day_map[j] \in p.keys => k <= j
         IN  IsoDate(now + ((i - 1 - weekday(now)) % 7))
    ELSE IF p.form \in {"YYYY-MM-DD", "DD/MM/YYYY", "DD-MM-YYYY",
                        "DD Month YYYY", "DD Mon YYYY"}
    THEN IsoDate(p.ord)
    ELSE p

\* appointment/executor.py
parse_date_str(p, now) ==
    IF p.form = "" THEN NoDate
    ELSE IF "today" \in p.keys THEN IsoDate(now)
    ELSE IF "tomorrow" \in p.keys THEN IsoDate(now + 1)
    ELSE IF \E i \in DOMAIN day_map : day_map[i] \in p.keys
    THEN LET i       == CHOOSE k \in DOMAIN day_map :
                            /\ day_map[k] \in p.keys
                            /\ \A j \in DOMAIN day_map :
                                   day_map[j] \in p.keys => k <= j
             day_num == i - 1
             diff    == (day_num - weekday(now)) % 7
         IN  IsoDate(now + (IF diff = 0 THEN 7 ELSE diff))
    ELSE IF p.form \in {"YYYY-MM-DD", "DD/MM/YYYY", "DD-MM-YYYY",
                        "DD Month YYYY", "DD Mon YYYY"}
    THEN IsoDate(p.ord)
    ELSE p

(***************************************************************************)
(* Appointment times.  A phrase is [form, h, m, word]: "H:MM" for the      *)
(* 24-hour pattern, "12h" for the am/pm pattern (word is "am" or "pm"),    *)
(* "word" for a text holding morning, afternoon or evening.                *)
(***************************************************************************)
TimeP(form, h, m, word) == [form |-> form, h |-> h, m |-> m, word |-> word]
NoTime == TimeP("None", 0, 0, "")
HHMM(h, m) == TimeP("HH:MM", h, m, "")

\* appointment/executor.py
parse_time_str(p) ==
    CASE p.form = ""     -> NoTime
      [] p.form = "H:MM" -> HHMM(p.h, p.m)
      [] p.form = "12h"  ->
            HHMM(IF p.word = "pm" /\ p.h # 12 THEN p.h + 12
                 ELSE IF p.word = "am" /\ p.h = 12 THEN 0 ELSE p.h, p.m)
      [] p.form = "word" /\ p.word = "morning"   -> HHMM(9, 0)
      [] p.form = "word" /\ p.word = "afternoon" -> HHMM(14, 0)
      [] p.form = "word" /\ p.word = "evening"   -> HHMM(17, 0)
      [] OTHER -> p

(***************************************************************************)
(* Executors.  Each is an operator from the tables and the arguments to    *)
(* the dictionary the function returns and, for a write, the new table.    *)
(* `fail` says that the database raised on this call (the connection was   *)
(* lost, the pool gave no connection, the statement was refused): a        *)
(* statement that raised has had no effect on the table.  `touched` names  *)
(* the tables the call sent a statement to.                                *)
(***************************************************************************)

\* a patient dictionary as the verification executor returns it; None is NoPatient
PatientDict(id, row) ==
    [patient_id     |-> id,
     first_name     |-> title_case(row.first_name),
     last_name      |-> title_case(row.last_name),
     date_of_birth  |-> row.date_of_birth,
     contact_number |-> row.contact_number]
NoPatient ==
    [patient_id |-> 0, first_name |-> <<>>, last_name |-> <<>>,
     date_of_birth |-> EmptyDob, contact_number |-> <<>>]

\* the rows the SELECT of verify_by_lastname_dob(_contact) returns
MatchingPatients(P, last_name, dob) ==
    {i \in DOMAIN P :
        /\ Lower(P[i].last_name) = Lower(Strip(last_name))
        /\ P[i].date_of_birth = dob_to_db_format(dob)}

\* verification/verification_executor.py
verify_by_lastname_dob(P, last_name, dob, fail) ==
    IF last_name = <<>> \/ dob.form = ""
    THEN [status |-> "MISSING_INFO", patient |-> NoPatient, touched |-> {}]
    ELSE LET rows == MatchingPatients(P, last_name, dob)
         IN  IF fail
             THEN [status |-> "ERROR", patient |-> NoPatient,
                   touched |-> {"patients"}]
             ELSE IF rows = {}
             THEN [status |-> "NOT_FOUND", patient |-> NoPatient,
                   touched |-> {"patients"}]
             ELSE IF Cardinality(rows) > 1
             THEN [status |-> "MULTIPLE_FOUND", patient |-> NoPatient,
                   touched |-> {"patients"}]
             ELSE LET i == CHOOSE r \in rows : TRUE
                  IN  [status |-> "VERIFIED", patient |-> PatientDict(i, P[i]),
                       touched |-> {"patients"}]

\* verification/verification_executor.py: the rows come in no stated order, so
\* the set holds every dictionary the loop can return
verify_by_lastname_dob_contact(P, last_name, dob, contact_number, fail) ==
    LET rows == {i \in MatchingPatients(P, last_name, dob) :
                    normalize_phone(P[i].contact_number)
                        = normalize_phone(contact_number)}
    IN  IF fail
        THEN {[status |-> "ERROR", patient |-> NoPatient, touched |-> {"patients"}]}
        ELSE IF rows = {}
        THEN {[status |-> "NOT_FOUND", patient |-> NoPatient,
               touched |-> {"patients"}]}
        ELSE {[status |-> "VERIFIED", patient |-> PatientDict(i, P[i]),
               touched |-> {"patients"}] : i \in rows}

\* verification/verification_executor.py
create_new_patient(P, first_name, last_name, dob, contact_number, fail) ==
    IF first_name = <<>> \/ last_name = <<>> \/ dob.form = "" \/ contact_number = <<>>
    THEN [status |-> "MISSING_INFO", patient |-> NoPatient, touched |-> {},
          patients |-> P]
    ELSE IF fail
    THEN [status |-> "ERROR", patient |-> NoPatient, touched |-> {"patients"},
          patients |-> P]
    ELSE LET row == [first_name     |-> title_case(first_name),
                     last_name      |-> title_case(last_name),
                     date_of_birth  |-> dob_to_db_format(dob),
                     contact_number |-> normalize_phone(contact_number)]
         IN  [status |-> "CREATED",
              patient |-> PatientDict(Len(P) + 1, row),
              touched |-> {"patients"},
              patients |-> Append(P, row)]

\* a slot dictionary (dentist, date, time) as the appointment executor returns it
Slot(dentist, date, time) == [dentist |-> dentist, date |-> date, time |-> time]
NoSlot == Slot(<<>>, NoDate, NoTime)

\* the availability query with status = 'confirmed' in place of status != 'cancelled'
Occupying_confirmed(A, dentist_name, date, time) ==
    {i \in DOMAIN A :
        /\ Contains(Lower(A[i].dentist), Lower(dentist_name))
        /\ A[i].date = date
        /\ A[i].time = time
        /\ A[i].status = "confirmed"}

\* WHERE LOWER(preferred_dentist) LIKE LOWER('%name%') AND preferred_date = ..
\*   AND preferred_time = .. AND status != 'cancelled'
Occupying(A, dentist_name, date, time) ==
    {i \in DOMAIN A :
        /\ Contains(Lower(A[i].dentist), Lower(dentist_name))
        /\ A[i].date = date
        /\ A[i].time = time
        /\ A[i].status # "cancelled"}

\* appointment/executor.py
DENTISTS ==
    << <<"D","r","."," ","E","m","i","l","y"," ","C","a","r","t","e","r">>,
       <<"D","r","."," ","J","a","m","e","s"," ","N","g","u","y","e","n">>,
       <<"D","r","."," ","S","a","r","a","h"," ","M","i","t","c","h","e","l","l">> >>

\* the keys the scripted booking flow reads from an availability answer
AvailabilityKeys_as_read(status) ==
    CASE status \in {"AVAILABLE", "FOUND"} ->
            {"status", "dentist", "date", "time", "date_db", "time_db"}
      [] status = "NOT_AVAILABLE" ->
            {"status", "dentist", "date", "time", "message", "suggested_date",
             "suggested_time", "suggested_date_db", "suggested_time_db"}
      [] status = "NONE_AVAILABLE_SUGGEST" ->
            {"status", "suggested_dentist", "suggested_date", "suggested_time",
             "suggested_date_db", "suggested_time_db", "message"}
      [] OTHER -> {"status", "message"}

\* appointment/executor.py: the keys of the dictionaries that
\* check_dentist_availability and find_available_dentist return
AvailabilityKeys(status) ==
    CASE status \in {"AVAILABLE", "FOUND"} -> {"status", "dentist", "date", "time"}
      [] status = "NOT_AVAILABLE" -> {"status", "dentist", "date", "time", "message"}
      [] status = "NONE_AVAILABLE_SUGGEST" ->
            {"status", "suggested_date", "suggested_time", "message"}
      [] OTHER -> {"status", "message"}

\* appointment/executor.py: the first dentist of DENTISTS who is free, or the
\* same time on the next day as a suggestion
find_available_dentist(A, date_str, time_str, now, fail) ==
    LET parsed_date == parse_date_str(date_str, now)
        parsed_time == parse_time_str(time_str)
        free == {i \in DOMAIN DENTISTS :
                    Occupying(A, DENTISTS[i], parsed_date, parsed_time) = {}}
    IN  IF parsed_date = NoDate \/ parsed_time = NoTime
        THEN [status |-> "INVALID", slot |-> NoSlot, touched |-> {}]
        ELSE IF fail
        THEN [status |-> "ERROR", slot |-> NoSlot, touched |-> {"appointments"}]
        ELSE IF free # {}
        THEN [status |-> "FOUND",
              slot |-> Slot(DENTISTS[CHOOSE i \in free : \A j \in free : i <= j],
                            parsed_date, parsed_time),
              touched |-> {"appointments"}]
        ELSE [status |-> "NONE_AVAILABLE_SUGGEST",
              slot |-> Slot(<<>>,
                            IF parsed_date.form = "YYYY-MM-DD"
                            THEN IsoDate(parsed_date.ord + 1) ELSE parsed_date,
                            parsed_time),
              touched |-> {"appointments"}]

\* appointment/executor.py
check_dentist_availability(A, date_str, time_str, dentist_name, now, fail) ==
    LET parsed_date == parse_date_str(date_str, now)
        parsed_time == parse_time_str(time_str)
    IN  IF parsed_date = NoDate \/ parsed_time = NoTime
        THEN [status |-> "INVALID", slot |-> NoSlot, touched |-> {}]
        ELSE IF fail
        THEN [status |-> "ERROR", slot |-> NoSlot, touched |-> {"appointments"}]
        ELSE IF Cardinality(Occupying(A, dentist_name, parsed_date, parsed_time)) > 0
        THEN [status |-> "NOT_AVAILABLE",
              slot |-> Slot(dentist_name, parsed_date, parsed_time),
              touched |-> {"appointments"}]
        ELSE [status |-> "AVAILABLE",
              slot |-> Slot(dentist_name, parsed_date, parsed_time),
              touched |-> {"appointments"}]

\* a booking that counts the slot's appointments before it inserts
book_appointment_guarded(A, patient_id, preferred_date, preferred_time, preferred_dentist, now, fail) ==
    LET parsed_date == parse_date_str(preferred_date, now)
        parsed_time == parse_time_str(preferred_time)
    IN  IF \/ fail \/ parsed_date = NoDate \/ parsed_time = NoTime
           \/ \E i \in DOMAIN A : /\ A[i].dentist = preferred_dentist
                                  /\ A[i].date = parsed_date
                                  /\ A[i].time = parsed_time
                                  /\ A[i].status # "cancelled"
        THEN [status |-> "ERROR", slot |-> NoSlot, touched |-> {"appointments"},
              appointments |-> A]
        ELSE [status |-> "BOOKED",
              slot |-> [dentist |-> preferred_dentist, date |-> parsed_date,
                        time |-> parsed_time],
              touched |-> {"appointments"},
              appointments |-> Append(A,
                  [patient_id |-> patient_id, date |-> parsed_date,
                   time |-> parsed_time, dentist |-> preferred_dentist,
                   status |-> "confirmed"])]

\* a booking whose failure comes after the INSERT has taken effect
book_appointment_dirty(A, patient_id, preferred_date, preferred_time, preferred_dentist, now, fail) ==
    LET parsed_date == parse_date_str(preferred_date, now)
        parsed_time == parse_time_str(preferred_time)
        row == [patient_id |-> patient_id, date |-> parsed_date,
                time |-> parsed_time, dentist |-> preferred_dentist,
                status |-> "confirmed"]
    IN  IF parsed_date = NoDate \/ parsed_time = NoTime
        THEN [status |-> "ERROR", slot |-> NoSlot, touched |-> {"appointments"},
              appointments |-> A]
        ELSE [status |-> IF fail THEN "ERROR" ELSE "BOOKED",
              slot |-> [dentist |-> preferred_dentist, date |-> parsed_date,
                        time |-> parsed_time],
              touched |-> {"appointments"},
              appointments |-> Append(A, row)]

\* appointment/executor.py: a plain INSERT; the columns are NOT NULL
\* (db/create_tables.py), so a date or time that parsed to None is refused
book_appointment(A, patient_id, preferred_date, preferred_time, preferred_dentist, now, fail) ==
    LET parsed_date == parse_date_str(preferred_date, now)
        parsed_time == parse_time_str(preferred_time)
    IN  IF fail \/ parsed_date = NoDate \/ parsed_time = NoTime
        THEN [status |-> "ERROR", slot |-> NoSlot, touched |-> {"appointments"},
              appointments |-> A]
        ELSE [status |-> "BOOKED",
              slot |-> Slot(preferred_dentist, parsed_date, parsed_time),
              touched |-> {"appointments"},
              appointments |-> Append(A,
                  [patient_id |-> patient_id, date |-> parsed_date,
                   time |-> parsed_time, dentist |-> preferred_dentist,
                   status |-> "confirmed"])]

\* ORDER BY preferred_date ASC, preferred_time ASC on the canonical texts
SlotBefore(a, b) ==
    \/ a.date.ord < b.date.ord
    \/ a.date.ord = b.date.ord /\ a.time.h < b.time.h
    \/ a.date.ord = b.date.ord /\ a.time.h = b.time.h /\ a.time.m <= b.time.m

\* every order in which the SELECT may return the rows `ids`
Orderings(A, ids) ==
    {q \in [1..Cardinality(ids) -> ids] :
        /\ \A i, j \in DOMAIN q : i # j => q[i] # q[j]
        /\ \A i, j \in DOMAIN q : i < j => SlotBefore(A[q[i]], A[q[j]])}

\* appointment/executor.py: the list holds the internal ids (_id) in SELECT order
get_patient_appointments(A, patient_id, fail) ==
    LET ids == {i \in DOMAIN A : /\ A[i].patient_id = patient_id
                                 /\ A[i].status \notin {"cancelled", "completed"}}
    IN  IF fail
        THEN {[status |-> "ERROR", appointments |-> <<>>,
               touched |-> {"appointments"}]}
        ELSE IF ids = {}
        THEN {[status |-> "NO_APPOINTMENTS", appointments |-> <<>>,
               touched |-> {"appointments"}]}
        ELSE {[status |-> "SUCCESS", appointments |-> q,
               touched |-> {"appointments"}] : q \in Orderings(A, ids)}

\* the update_fields dictionary: an absent field is "" (a phrase of form "")
Fields(treatment, date, time, dentist) ==
    [preferred_treatment |-> treatment, preferred_date |-> date,
     preferred_time |-> time, preferred_dentist |-> dentist]

\* appointment/executor.py
update_appointment(A, appointment_id, f, now, fail) ==
    IF /\ f.preferred_treatment = <<>> /\ f.preferred_date.form = ""
       /\ f.preferred_time.form = "" /\ f.preferred_dentist = <<>>
    THEN [status |-> "ERROR", slot |-> NoSlot, touched |-> {}, appointments |-> A]
    ELSE IF fail \/ appointment_id \notin DOMAIN A
    THEN [status |-> "ERROR", slot |-> NoSlot, touched |-> {"appointments"},
          appointments |-> A]
    ELSE LET old == A[appointment_id]
             new == [old EXCEPT
                 !.date    = IF f.preferred_date.form = "" THEN @
                             ELSE parse_date_str(f.preferred_date, now),
                 !.time    = IF f.preferred_time.form = "" THEN @
                             ELSE parse_time_str(f.preferred_time),
                 !.dentist = IF f.preferred_dentist = <<>> THEN @
                             ELSE f.preferred_dentist]
         IN  [status |-> "UPDATED",
              slot |-> Slot(new.dentist, new.date, new.time),
              touched |-> {"appointments"},
              appointments |-> [A EXCEPT ![appointment_id] = new]]

\* a cancellation whose UPDATE has lost its WHERE clause
cancel_appointment_all(A, appointment_id, fail) ==
    IF fail \/ A = <<>>
    THEN [status |-> "ERROR", raised |-> FALSE, slot |-> NoSlot,
          message |-> IF fail THEN "str(e)" ELSE "Appointment not found.",
          touched |-> {"appointments"}, appointments |-> A]
    ELSE [status |-> "CANCELLED", raised |-> FALSE, message |-> "",
          slot |-> [dentist |-> A[1].dentist, date |-> A[1].date,
                    time |-> A[1].time],
          touched |-> {"appointments"},
          appointments |-> [i \in DOMAIN A |-> [A[i] EXCEPT !.status = "cancelled"]]]

\* a cancellation that writes a status of its own spelling
cancel_appointment_canceled(A, appointment_id, fail) ==
    IF fail \/ appointment_id \notin DOMAIN A
    THEN [status |-> "ERROR", raised |-> FALSE, slot |-> NoSlot,
          message |-> IF fail THEN "str(e)" ELSE "Appointment not found.",
          touched |-> {"appointments"}, appointments |-> A]
    ELSE [status |-> "CANCELLED", raised |-> FALSE, message |-> "",
          slot |-> Slot(A[appointment_id].dentist, A[appointment_id].date,
                        A[appointment_id].time),
          touched |-> {"appointments"},
          appointments |-> [A EXCEPT ![appointment_id].status = "canceled"]]

\* appointment/executor.py
cancel_appointment(A, appointment_id, fail) ==
    IF fail \/ appointment_id \notin DOMAIN A
    THEN [status |-> "ERROR", raised |-> FALSE, slot |-> NoSlot,
          message |-> IF fail THEN "str(e)" ELSE "Appointment not found.",
          touched |-> {"appointments"}, appointments |-> A]
    ELSE [status |-> "CANCELLED", raised |-> FALSE, message |-> "",
          slot |-> Slot(A[appointment_id].dentist, A[appointment_id].date,
                        A[appointment_id].time),
          touched |-> {"appointments"},
          appointments |-> [A EXCEPT ![appointment_id].status = "cancelled"]]

\* general_enquiry/enquiry_executor.py
get_patient_orders(O, patient_id, fail) ==
    IF fail THEN [status |-> "ERROR", touched |-> {"patient_orders"}]
    ELSE IF {i \in DOMAIN O : O[i].patient_id = patient_id} = {}
    THEN [status |-> "NO_ORDERS", touched |-> {"patient_orders"}]
    ELSE [status |-> "SUCCESS", touched |-> {"patient_orders"}]

\* general_enquiry/enquiry_executor.py: non-cancelled rows dated today or later
get_upcoming_appointments(A, patient_id, now, fail) ==
    IF fail THEN [status |-> "ERROR", touched |-> {"appointments"}]
    ELSE IF {i \in DOMAIN A : /\ A[i].patient_id = patient_id
                              /\ A[i].status # "cancelled"
                              /\ A[i].date.form = "YYYY-MM-DD"
                              /\ A[i].date.ord >= now} = {}
    THEN [status |-> "NO_UPCOMING", touched |-> {"appointments"}]
    ELSE [status |-> "SUCCESS", touched |-> {"appointments"}]

\* general_enquiry/enquiry_executor.py: rows dated before today
get_past_appointments(A, patient_id, now, fail) ==
    IF fail THEN [status |-> "ERROR", touched |-> {"appointments"}]
    ELSE IF {i \in DOMAIN A : /\ A[i].patient_id = patient_id
                              /\ A[i].date.form = "YYYY-MM-DD"
                              /\ A[i].date.ord < now} = {}
    THEN [status |-> "NO_HISTORY", touched |-> {"appointments"}]
    ELSE [status |-> "SUCCESS", touched |-> {"appointments"}]

(***************************************************************************)
(* The inputs the model draws from.                                        *)
(***************************************************************************)
Ann      == <<"A","n","n">>
Lee      == <<"L","e","e">>
Ray      == <<"R","a","y">>
PhoneA   == <<"0","4","1","2","3","4","5","6","7","8">>
PhoneB   == <<"0","4","9","8","7","6","5","4","3","2">>
DrCarter == <<"D","r","."," ","E","m","i","l","y"," ","C","a","r","t","e","r">>
Emily    == <<"e","m","i","l","y">>

DobA == Dob("DD-MM-YYYY", 12, 12, 2006)
DobB == Dob("DD-MM-YYYY", 1, 2, 1990)

\* the rows the patients table holds when the calls begin: two patients who
\* share last name and date of birth, and one who is alone with hers
SeedPatients ==
    << [first_name |-> Ann, last_name |-> Lee, date_of_birth |-> DobA,
        contact_number |-> PhoneA],
       [first_name |-> Ann, last_name |-> Lee, date_of_birth |-> DobA,
        contact_number |-> PhoneB],
       [first_name |-> Ann, last_name |-> Ray, date_of_birth |-> DobB,
        contact_number |-> PhoneA] >>

SeedOrders ==
    << [patient_id |-> 1, first_name |-> Ann, last_name |-> Lee,
        product_name |-> <<"D","e","n","t","u","r","e","s">>,
        order_status |-> "placed"],
       [patient_id |-> 1, first_name |-> Ann, last_name |-> Lee,
        product_name |-> <<"N","i","g","h","t"," ","G","u","a","r","d">>,
        order_status |-> "delivered"] >>

FirstDay == 739925      \* date.today() when the calls begin: 2026-11-05, a Thursday

LastNameArgs  == {<<>>, <<" ","L","E","E">>, <<"r","a","y">>}
DobArgs       == {EmptyDob, Dob("D/M/YYYY", 12, 12, 2006),
                  Dob("Dth Month YYYY", 1, 2, 1990)}
RayDob        == Dob("YYYY-M-D", 1, 2, 1990)
PhoneArgs     == {<<"0","4","1","2","-","3","4","5","-","6","7","8">>, PhoneB}
NewFirstArgs  == {<<>>, <<"a","n","n">>}
NewLastArgs   == {<<"r","a","y">>}
NewDobArgs    == {Dob("Dth Month YYYY", 1, 2, 1990)}
NewPhoneArgs  == {<<"o","h"," ","f","o","u","r">>, PhoneB}

DateArgs    == {DateP("", {}, 0), DateP("words", {"tomorrow"}, 0),
                IsoDate(FirstDay + 1), DateP("words", {"monday"}, 0)}
TimeArgs    == {TimeP("", 0, 0, ""), TimeP("12h", 3, 0, "pm"), TimeP("H:MM", 15, 0, "")}
DentistArgs == {DrCarter, Emily}
CallIds     == {"call_a", "call_b"}
Open        == {"none"}      \* the model socket stays open through the answer
StaffStatuses == {"confirmed", "completed", "cancelled", "pending"}

\* the update_fields a caller may ask for
\* the days appointments are booked on and moved to
MoveDates == {DateP("words", {"tomorrow"}, 0), DateP("words", {"monday"}, 0)}

NoFields == Fields(<<>>, DateP("", {}, 0), TimeP("", 0, 0, ""), <<>>)
FieldArgs ==
    {NoFields,
     [NoFields EXCEPT !.preferred_treatment = <<"x">>],
     [NoFields EXCEPT !.preferred_date = DateP("words", {"monday"}, 0)]}

(***************************************************************************)
(* The session dictionary and the call bridge.                             *)
(***************************************************************************)

\* the keys the scripted flows keep in the session dictionary
\* (appointment/slot_controller.py, verification/verification_controller.py);
\* "" , <<>> and the empty records stand for a key that is absent
NoBookingData ==
    [exists |-> FALSE, preferred_treatment |-> "", pending_date |-> NoDate,
     preferred_date |-> NoDate, preferred_time |-> NoTime,
     preferred_dentist |-> <<>>, confirmed |-> NoSlot, db |-> NoSlot,
     alt |-> NoSlot]
NoFlow ==
    [booking_step |-> "", booking_data |-> NoBookingData,
     verification_step |-> "", pending_last_name |-> <<>>,
     pending_dob |-> EmptyDob, pending_patient |-> NoPatient,
     new_first_name |-> <<>>, new_last_name |-> <<>>, new_dob |-> EmptyDob,
     new_contact |-> <<>>]

\* main.py: make_new_session; before Twilio's start event the session is None
\* None is "" for the item and response ids and NoStart for audio_start_time
NoStart == 0 - 1
NoSession ==
    [exists |-> FALSE, verified |-> FALSE, patient_data |-> NoPatient,
     fetched_appointments |-> <<>>,
     is_speaking |-> FALSE, current_response_id |-> "",
     last_assistant_item_id |-> "", audio_start_time |-> NoStart,
     elapsed_ms |-> 0, audio_queue |-> <<>>,
     is_known_supplier |-> FALSE, company_name |-> <<>>,
     greeting_sent |-> FALSE, flow |-> NoFlow]
make_new_session ==
    [exists |-> TRUE, verified |-> FALSE, patient_data |-> NoPatient,
     fetched_appointments |-> <<>>,
     is_speaking |-> FALSE, current_response_id |-> "",
     last_assistant_item_id |-> "", audio_start_time |-> NoStart,
     elapsed_ms |-> 0, audio_queue |-> <<>>,
     is_known_supplier |-> FALSE, company_name |-> <<>>,
     greeting_sent |-> FALSE, flow |-> NoFlow]

Msg(type, call_id, status) == [type |-> type, call_id |-> call_id, status |-> status]

\* an answer that asks for the next response without handing over the output
SendResult_no_output(call_id, status, closeAt) ==
    IF closeAt = "none" THEN << Msg("response.create", "", "") >> ELSE <<>>

\* main.py: safe_openai_send skips the send when the socket is closed.  The two
\* sends of handle_function_call are await points: closeAt says at which of
\* them, if at any, the model socket has been closed from the other side.
SendResult(call_id, status, closeAt) ==
    (IF closeAt = "before_output" THEN <<>>
     ELSE << Msg("function_call_output", call_id, status) >>)
    \o
    (IF closeAt = "none" THEN << Msg("response.create", "", "") >> ELSE <<>>)

CloseAts == {"none", "before_output", "before_create"}

\* main.py: handle_media_stream: the three tasks it creates, call_active and
\* how far the handler itself has come
NewTasks ==
    [twilio |-> "running", openai |-> "running", keep_alive |-> "running",
     running |-> TRUE, handler |-> "waiting", caller |-> "on", beat |-> 0]

\* db/db_connection.py: the pool before any connection was taken; scope is the
\* db_cursor scope or raw connection use that ran last
NoScope ==
    [kind |-> "", got |-> FALSE, body_ran |-> FALSE, body_raised |-> FALSE,
     commits |-> 0, rollbacks |-> 0, putconns |-> 0, raised |-> FALSE]
NewPool == [used |-> 0, scope |-> NoScope]

\* management_console.py: a browser that has not logged in
NewPortal ==
    [logged_in |-> FALSE, route |-> "", method |-> "", username |-> <<>>,
     password |-> <<>>, response |-> "", touched |-> {}]

\* what the model's server and the bridge have exchanged in a call, as an
\* observer of the socket sees it: config is how the session configuration
\* went out, updates the session.update messages not yet answered, greeted
\* whether [CALL_STARTED] was sent; resp is the response the server has created
\* and not yet done, item the output item it added last, audio how far the
\* audio of that item is ("none", "streaming", "done"), heard the clock at the
\* first delta of that item forwarded to the caller, barged whether a
\* barge-in has interrupted that item
NewWire ==
    [config |-> "waiting", updates |-> 0, greeted |-> FALSE,
     resp |-> "", item |-> "", audio |-> "none",
     heard |-> NoStart, barged |-> FALSE]

\* no function applied yet
NoCalc == [fn |-> "", arg |-> <<>>, out |-> <<>>]

NoLast ==
    [call |-> 0, fn |-> "", call_id |-> "", status |-> "", message |-> "",
     touched |-> {}, slot |-> NoSlot, sent |-> <<>>, keys |-> {}]

Init ==
    /\ patients = SeedPatients
    /\ appointments = <<>>
    /\ orders = SeedOrders
    /\ session = [c \in Calls |-> NoSession]
    /\ ws = [c \in Calls |-> "open"]
    /\ last = NoLast
    /\ avail = [c \in Calls |-> NoSlot]
    /\ today = FirstDay
    /\ clock = 0
    /\ tasks = [c \in Calls |-> NewTasks]
    /\ pool = NewPool
    /\ complaints = <<>>
    /\ portal = NewPortal
    /\ calc = NoCalc
    /\ wire = [c \in Calls |-> NewWire]

\* main.py: the end of handle_function_call: the function_call_output item,
\* then response.create
AnswerWith(c, fn, call_id, status, touched, slot, closeAt, keys) ==
    /\ last' = [call |-> c, fn |-> fn, call_id |-> call_id, status |-> status,
                message |-> "", touched |-> touched, slot |-> slot,
                sent |-> SendResult(call_id, status, closeAt), keys |-> keys]
    /\ ws' = [ws EXCEPT ![c] = IF closeAt = "none" THEN "open" ELSE "closed"]

\* main.py: handle_function_call: the keys of the result dictionary each
\* branch builds for its tool and outcome, those of nested dictionaries
\* included; every refusal and every exception gives status and message
ResultKeys(fn, status) ==
    LET one  == {"status", "message"}
        appt == {"status", "treatment", "date", "time", "dentist"}
        list == {"status", "appointments", "count", "treatment", "date", "dentist"}
    IN  CASE fn = "verify_existing_patient" /\ status = "VERIFIED" ->
                {"status", "first_name", "last_name", "date_of_birth",
                 "contact_spoken"}
          [] fn = "verify_with_contact_number" /\ status = "VERIFIED" ->
                {"status", "first_name", "last_name"}
          [] fn = "create_new_patient" /\ status = "CREATED" ->
                {"status", "first_name", "last_name", "message"}
          [] fn = "check_slot_availability" /\ status = "AVAILABLE" ->
                {"status", "dentist", "date", "time"}
          [] fn = "check_slot_availability" /\ status = "NOT_AVAILABLE" ->
                {"status", "dentist", "date", "time", "message"}
          [] fn = "book_appointment" /\ status = "BOOKED" -> appt
          [] fn = "update_my_appointment" /\ status = "UPDATED" -> appt
          [] fn = "cancel_my_appointment" /\ status = "CANCELLED" -> appt
          [] fn = "get_my_appointments" /\ status = "SUCCESS" ->
                list \cup {"index", "time"}
          [] fn = "get_my_upcoming_appointments" /\ status = "SUCCESS" ->
                list \cup {"time"}
          [] fn = "get_my_treatment_history" /\ status = "SUCCESS" -> list
          [] fn = "get_my_order_status" /\ status = "SUCCESS" ->
                {"status", "orders", "count", "product", "notes"}
          [] fn = "check_known_supplier" /\ status = "FOUND" ->
                {"status", "company_name", "specialty", "message"}
          [] OTHER -> one

Answer(c, fn, call_id, status, touched, slot, closeAt) ==
    AnswerWith(c, fn, call_id, status, touched, slot, closeAt,
               ResultKeys(fn, status))

\* main.py: receive_from_twilio, event start
TwilioStart(c) ==
    /\ ws[c] = "open"
    /\ ~session[c].exists
    /\ session' = [session EXCEPT ![c] = make_new_session]
    /\ UNCHANGED <<patients, appointments, orders, ws, last, avail, today, aux>>

\* main.py: receive_from_twilio, event stop: call_active is cleared, the model
\* socket is closed and the loop is left
Hangup(c) ==
    /\ tasks[c].twilio = "running"
    /\ ws' = [ws EXCEPT ![c] = "closed"]
    /\ tasks' = [tasks EXCEPT ![c].running = FALSE, ![c].twilio = "done",
                              ![c].caller = "gone"]
    /\ UNCHANGED <<patients, appointments, orders, session, last, avail, today,
                   clock, complaints, portal>>

\* main.py: what the verify_existing_patient branch answers for the executor's r
VerifyExistingStatus(r, hasSession) ==
    IF r.status = "VERIFIED" THEN (IF hasSession THEN "VERIFIED" ELSE "ERROR")
    ELSE IF r.status = "MULTIPLE_FOUND" THEN "MULTIPLE_FOUND"
    ELSE "NOT_FOUND"

\* main.py: what the verify_with_contact_number branch answers
VerifyContactStatus(r, hasSession) ==
    IF r.status = "VERIFIED" THEN (IF hasSession THEN "VERIFIED" ELSE "ERROR")
    ELSE "NOT_FOUND"

\* a session that a failed verification or creation resets
MarkVerified_reset(sess, r, okStatus) ==
    IF ~sess.exists THEN sess
    ELSE IF r.status = okStatus
    THEN [sess EXCEPT !.patient_data = r.patient, !.verified = TRUE]
    ELSE [sess EXCEPT !.patient_data = NoPatient, !.verified = FALSE]

\* main.py: the session after a verification or creation that returned r
MarkVerified(sess, r, okStatus) ==
    IF r.status = okStatus /\ sess.exists
    THEN [sess EXCEPT !.patient_data = r.patient, !.verified = TRUE]
    ELSE sess

\* main.py: handle_function_call, verify_existing_patient
VerifyExistingPatient(c, last_name, date_of_birth, fail, call_id, closeAt) ==
    /\ ws[c] = "open"
    /\ LET r == verify_by_lastname_dob(patients, last_name,
                                       normalize_dob(date_of_birth), fail)
       IN  /\ session' = [session EXCEPT ![c] = MarkVerified(@, r, "VERIFIED")]
           /\ Answer(c, "verify_existing_patient", call_id,
                     VerifyExistingStatus(r, session[c].exists),
                     r.touched, NoSlot, closeAt)
    /\ UNCHANGED <<patients, appointments, orders, avail, today, aux>>

\* main.py: handle_function_call, verify_with_contact_number
VerifyWithContactNumber(c, last_name, date_of_birth, contact_number, fail, call_id, closeAt) ==
    /\ ws[c] = "open"
    /\ \E r \in verify_by_lastname_dob_contact(patients, last_name,
                    normalize_dob(date_of_birth),
                    extract_phone_from_text(contact_number), fail) :
           /\ session' = [session EXCEPT ![c] = MarkVerified(@, r, "VERIFIED")]
           /\ Answer(c, "verify_with_contact_number", call_id,
                     VerifyContactStatus(r, session[c].exists),
                     r.touched, NoSlot, closeAt)
    /\ UNCHANGED <<patients, appointments, orders, avail, today, aux>>

\* main.py: handle_function_call, create_new_patient
CreateNewPatient(c, first_name, last_name, date_of_birth, contact_number, fail, call_id, closeAt) ==
    /\ ws[c] = "open"
    /\ Len(patients) < MaxPatients
    /\ LET r == create_new_patient(patients, first_name, last_name,
                    normalize_dob(date_of_birth),
                    extract_phone_from_text(contact_number), fail)
       IN  /\ patients' = r.patients
           /\ session' = [session EXCEPT ![c] = MarkVerified(@, r, "CREATED")]
           /\ Answer(c, "create_new_patient", call_id,
                     IF r.status = "CREATED" /\ session[c].exists
                     THEN "CREATED" ELSE "ERROR",
                     r.touched, NoSlot, closeAt)
    /\ UNCHANGED <<appointments, orders, avail, today, aux>>

\* main.py: handle_function_call, check_slot_availability: the executor's
\* dictionary is the answer
CheckSlotAvailability(c, date, time, dentist_name, fail, call_id, closeAt) ==
    /\ ws[c] = "open"
    /\ LET r == check_dentist_availability(appointments, date, time,
                                           dentist_name, today, fail)
       IN  /\ Answer(c, "check_slot_availability", call_id, r.status,
                     r.touched, r.slot, closeAt)
           /\ avail' = [avail EXCEPT ![c] =
                            IF r.status = "AVAILABLE" THEN r.slot ELSE NoSlot]
    /\ UNCHANGED <<patients, appointments, orders, session, today, aux>>

\* a guard that only asks for a session
Verified_any_session(sess) == sess.exists

\* main.py: the guard of the tools that need a verified patient; a session
\* that is None makes session.get raise, which the handler answers with ERROR
Verified(sess) == sess.exists /\ sess.verified

\* main.py: handle_function_call, book_appointment
BookAppointment(c, preferred_date, preferred_time, preferred_dentist, fail, call_id, closeAt) ==
    /\ ws[c] = "open"
    /\ IF ~Verified(session[c]) \/ session[c].patient_data = NoPatient
       THEN /\ Answer(c, "book_appointment", call_id, "ERROR", {}, NoSlot, closeAt)
            /\ UNCHANGED appointments
       ELSE /\ Len(appointments) < MaxAppts
            /\ LET r == book_appointment(appointments,
                            session[c].patient_data.patient_id,
                            preferred_date, preferred_time, preferred_dentist,
                            today, fail)
               IN  /\ appointments' = r.appointments
                   /\ Answer(c, "book_appointment", call_id,
                             IF r.status = "BOOKED" THEN "BOOKED" ELSE "ERROR",
                             r.touched, r.slot, closeAt)
    /\ UNCHANGED <<patients, orders, session, avail, today, aux>>

\* main.py: handle_function_call, get_my_appointments
GetMyAppointments(c, fail, call_id, closeAt) ==
    /\ ws[c] = "open"
    /\ IF ~Verified(session[c])
       THEN /\ Answer(c, "get_my_appointments", call_id, "ERROR", {}, NoSlot, closeAt)
            /\ UNCHANGED session
       ELSE \E r \in get_patient_appointments(appointments,
                         session[c].patient_data.patient_id, fail) :
            /\ session' = IF r.status = "SUCCESS"
                          THEN [session EXCEPT
                                    ![c].fetched_appointments = r.appointments]
                          ELSE session
            /\ Answer(c, "get_my_appointments", call_id, r.status, r.touched,
                      NoSlot, closeAt)
    /\ UNCHANGED <<patients, appointments, orders, avail, today, aux>>

\* main.py: the list update_my_appointment and cancel_my_appointment index:
\* the fetched list, fetched anew when it is empty
FetchedOrFresh(sess, r2) ==
    IF sess.fetched_appointments # <<>> THEN sess.fetched_appointments
    ELSE IF r2.status = "SUCCESS" THEN r2.appointments
    ELSE <<>>

\* main.py: handle_function_call, update_my_appointment
UpdateMyAppointment(c, appointment_index, f, failGet, fail, call_id, closeAt) ==
    /\ ws[c] = "open"
    /\ IF ~Verified(session[c])
       THEN /\ Answer(c, "update_my_appointment", call_id, "ERROR", {}, NoSlot, closeAt)
            /\ UNCHANGED <<session, appointments>>
       ELSE \E r2 \in get_patient_appointments(appointments,
                          session[c].patient_data.patient_id, failGet) :
            LET appts == FetchedOrFresh(session[c], r2)
                idx   == appointment_index - 1
                t2    == IF session[c].fetched_appointments = <<>>
                         THEN r2.touched ELSE {}
            IN  IF 0 <= idx /\ idx < Len(appts)
                THEN LET r == update_appointment(appointments, appts[idx + 1],
                                                 f, today, fail)
                     IN  /\ appointments' = r.appointments
                         /\ session' = [session EXCEPT ![c].fetched_appointments =
                                IF r.status = "UPDATED" THEN <<>> ELSE appts]
                         /\ Answer(c, "update_my_appointment", call_id,
                                   IF r.status = "UPDATED" THEN "UPDATED" ELSE "ERROR",
                                   t2 \cup r.touched, r.slot, closeAt)
                ELSE /\ session' = [session EXCEPT ![c].fetched_appointments = appts]
                     /\ UNCHANGED appointments
                     /\ Answer(c, "update_my_appointment", call_id, "ERROR",
                               t2, NoSlot, closeAt)
    /\ UNCHANGED <<patients, orders, avail, today, aux>>

\* main.py: handle_function_call, cancel_my_appointment
CancelMyAppointment(c, appointment_index, failGet, fail, call_id, closeAt) ==
    /\ ws[c] = "open"
    /\ IF ~Verified(session[c])
       THEN /\ Answer(c, "cancel_my_appointment", call_id, "ERROR", {}, NoSlot, closeAt)
            /\ UNCHANGED <<session, appointments>>
       ELSE \E r2 \in get_patient_appointments(appointments,
                          session[c].patient_data.patient_id, failGet) :
            LET appts == FetchedOrFresh(session[c], r2)
                idx   == appointment_index - 1
                t2    == IF session[c].fetched_appointments = <<>>
                         THEN r2.touched ELSE {}
            IN  IF 0 <= idx /\ idx < Len(appts)
                THEN LET r == cancel_appointment(appointments, appts[idx + 1], fail)
                         ok == r.status = "CANCELLED" /\ ~r.raised
                     IN  /\ appointments' = r.appointments
                         /\ session' = [session EXCEPT ![c].fetched_appointments =
                                IF ok THEN <<>> ELSE appts]
                         /\ Answer(c, "cancel_my_appointment", call_id,
                                   IF ok THEN "CANCELLED" ELSE "ERROR",
                                   t2 \cup r.touched, r.slot, closeAt)
                ELSE /\ session' = [session EXCEPT ![c].fetched_appointments = appts]
                     /\ UNCHANGED appointments
                     /\ Answer(c, "cancel_my_appointment", call_id, "ERROR",
                               t2, NoSlot, closeAt)
    /\ UNCHANGED <<patients, orders, avail, today, aux>>

\* main.py: handle_function_call, get_my_order_status,
\* get_my_upcoming_appointments and get_my_treatment_history
EnquiryResult(fn, pid, fail) ==
    CASE fn = "get_my_order_status" -> get_patient_orders(orders, pid, fail)
      [] fn = "get_my_upcoming_appointments" ->
            get_upcoming_appointments(appointments, pid, today, fail)
      [] fn = "get_my_treatment_history" ->
            get_past_appointments(appointments, pid, today, fail)

EnquiryTools ==
    {"get_my_order_status", "get_my_upcoming_appointments",
     "get_my_treatment_history"}

Enquiry(c, fn, fail, call_id, closeAt) ==
    /\ ws[c] = "open"
    /\ IF ~Verified(session[c])
       THEN Answer(c, fn, call_id, "ERROR", {}, NoSlot, closeAt)
       ELSE LET r == EnquiryResult(fn, session[c].patient_data.patient_id, fail)
            IN  Answer(c, fn, call_id, r.status, r.touched, NoSlot, closeAt)
    /\ UNCHANGED <<patients, appointments, orders, session, avail, today, aux>>

\* appointment/executor.py: cancel_appointment called with an id, as the flow
\* controller (appointment/slot_controller.py) calls it
CancelById(appointment_id, fail) ==
    /\ LET r == cancel_appointment(appointments, appointment_id, fail)
       IN  /\ appointments' = r.appointments
           /\ last' = [call |-> 0, fn |-> "cancel_appointment", call_id |-> "",
                       status |-> IF r.raised THEN "RAISED" ELSE r.status,
                       message |-> r.message, touched |-> r.touched,
                       slot |-> r.slot, sent |-> <<>>, keys |-> {}]
    /\ UNCHANGED <<patients, orders, session, ws, avail, today, aux>>

\* management_console.py: update_appointment_status, by a logged-in member of staff
StaffUpdateStatus(appointment_id, new_status) ==
    /\ appointment_id \in DOMAIN appointments
    /\ appointments[appointment_id].status # new_status
    /\ appointments' = [appointments EXCEPT ![appointment_id].status = new_status]
    /\ UNCHANGED <<patients, orders, session, ws, last, avail, today, aux>>

(***************************************************************************)
(* Playback bookkeeping and barge-in (main.py: receive_from_openai).       *)
(***************************************************************************)
MaxClock == 2    \* milliseconds the clock may advance
MaxQueue == 2    \* audio deltas the queue may hold

ItemIds == {"item_1", "item_2"}
RespIds == {"resp_1"}

\* the record with which `last` reports an event that is not a tool call
Event(c, type, sent) ==
    [call |-> c, fn |-> type, call_id |-> "", status |-> "", message |-> "",
     touched |-> {}, slot |-> NoSlot, sent |-> sent, keys |-> {}]

\* time.time() advancing
Tick ==
    /\ clock < MaxClock
    /\ clock' = clock + 1
    /\ UNCHANGED <<patients, appointments, orders, session, ws, last, avail,
                   today, tasks, pool, complaints, portal, calc, wire>>

\* main.py: receive_from_openai, response.output_item.added
OutputItemAdded(c, item_id) ==
    /\ ws[c] = "open"
    /\ session' = IF session[c].exists
                  THEN [session EXCEPT ![c].last_assistant_item_id = item_id,
                                       ![c].audio_start_time = NoStart,
                                       ![c].elapsed_ms = 0,
                                       ![c].audio_queue = <<>>]
                  ELSE session
    /\ last' = Event(c, "response.output_item.added", <<>>)
    /\ wire' = [wire EXCEPT ![c].item = item_id, ![c].audio = "none",
                             ![c].heard = NoStart, ![c].barged = FALSE]
    /\ UNCHANGED <<patients, appointments, orders, ws, avail, today, aux, pool, calc>>

\* the media message that forwards a delta of an item to the caller
Media(item_id) == [type |-> "media", item_id |-> item_id]

\* main.py: receive_from_openai, response.audio.delta; stream_sid is set with
\* the session, by Twilio's start event, and the delta is then forwarded
AudioDelta(c) ==
    /\ ws[c] = "open"
    /\ Len(session[c].audio_queue) < MaxQueue
    /\ session' = IF session[c].exists
                  THEN [session EXCEPT ![c].is_speaking = TRUE,
                                       ![c].audio_queue = Append(@, "delta"),
                                       ![c].audio_start_time =
                                           IF @ = NoStart THEN clock ELSE @]
                  ELSE session
    /\ last' = Event(c, "response.audio.delta",
                     IF session[c].exists THEN << Media(wire[c].item) >> ELSE <<>>)
    /\ wire' = [wire EXCEPT ![c].audio = "streaming",
                             ![c].heard =
                                 IF session[c].exists /\ @ = NoStart
                                 THEN clock ELSE @]
    /\ UNCHANGED <<patients, appointments, orders, ws, avail, today, aux, pool, calc>>

\* main.py: receive_from_openai, response.audio.done
AudioDone(c) ==
    /\ ws[c] = "open"
    /\ session' = IF session[c].exists
                  THEN [session EXCEPT ![c].is_speaking = FALSE,
                                       ![c].audio_queue = <<>>,
                                       ![c].audio_start_time = NoStart,
                                       ![c].elapsed_ms = 0]
                  ELSE session
    /\ last' = Event(c, "response.audio.done", <<>>)
    /\ wire' = [wire EXCEPT ![c].audio = "done"]
    /\ UNCHANGED <<patients, appointments, orders, ws, avail, today, aux, pool, calc>>

\* main.py: receive_from_openai, response.created
ResponseCreated(c, response_id) ==
    /\ ws[c] = "open"
    /\ session' = IF session[c].exists
                  THEN [session EXCEPT ![c].current_response_id = response_id]
                  ELSE session
    /\ last' = Event(c, "response.created", <<>>)
    /\ wire' = [wire EXCEPT ![c].resp = response_id]
    /\ UNCHANGED <<patients, appointments, orders, ws, avail, today, aux, pool, calc>>

\* main.py: receive_from_openai, response.done
ResponseDone(c) ==
    /\ ws[c] = "open"
    /\ session' = IF session[c].exists
                  THEN [session EXCEPT ![c].current_response_id = ""]
                  ELSE session
    /\ last' = Event(c, "response.done", <<>>)
    /\ wire' = [wire EXCEPT ![c].resp = "", ![c].item = "", ![c].audio = "none",
                             ![c].heard = NoStart, ![c].barged = FALSE]
    /\ UNCHANGED <<patients, appointments, orders, ws, avail, today, aux, pool, calc>>

\* a barge-in test that fires on audio in flight or on an active response
BargeIn_or_response(sess) ==
    sess.exists /\ (sess.is_speaking \/ sess.current_response_id # "")

\* main.py: the test of the speech_started branch: audio in flight for an item
BargeIn(sess) ==
    sess.exists /\ sess.is_speaking /\ sess.last_assistant_item_id # ""

\* an elapsed time that is counted from the start of the process
Elapsed_since_boot(sess, now) == now

\* main.py: the elapsed playback time the barge-in computes
Elapsed(sess, now) ==
    IF sess.audio_start_time # NoStart THEN now - sess.audio_start_time ELSE 0

Cancel == [type |-> "response.cancel"]
Truncate(item_id, audio_end_ms) ==
    [type |-> "conversation.item.truncate", item_id |-> item_id,
     content_index |-> 0, audio_end_ms |-> audio_end_ms]

\* a barge-in that cancels whether or not a response is active
BargeSent_cancel_always(sess, now, closeAt) ==
    (IF closeAt # "before_output" THEN << Cancel >> ELSE <<>>)
    \o
    (IF sess.last_assistant_item_id # "" /\ closeAt = "none"
     THEN << Truncate(sess.last_assistant_item_id, Elapsed(sess, now)) >>
     ELSE <<>>)

\* main.py: what the barge-in sends: response.cancel when a response is active,
\* then the truncation of the current item; safe_openai_send skips a send on a
\* closed socket (closeAt as in SendResult)
BargeSent(sess, now, closeAt) ==
    (IF sess.current_response_id # "" /\ closeAt # "before_output"
     THEN << Cancel >> ELSE <<>>)
    \o
    (IF sess.last_assistant_item_id # "" /\ closeAt = "none"
     THEN << Truncate(sess.last_assistant_item_id, Elapsed(sess, now)) >>
     ELSE <<>>)

\* a barge-in that leaves the playback state as it was
Cleared_nothing(sess) == sess

\* main.py: the playback bookkeeping after a barge-in
Cleared(sess) ==
    [sess EXCEPT !.audio_queue = <<>>, !.last_assistant_item_id = "",
                 !.audio_start_time = NoStart, !.elapsed_ms = 0,
                 !.is_speaking = FALSE]

\* main.py: receive_from_openai, input_audio_buffer.speech_started
SpeechStarted(c, closeAt) ==
    /\ ws[c] = "open"
    /\ IF BargeIn(session[c])
       THEN /\ session' = [session EXCEPT ![c] = Cleared(@)]
            /\ last' = Event(c, "input_audio_buffer.speech_started",
                             BargeSent(session[c], clock, closeAt))
            /\ ws' = [ws EXCEPT ![c] = IF closeAt = "none" THEN "open" ELSE "closed"]
            /\ wire' = [wire EXCEPT ![c].barged =
                                        @ \/ session[c].last_assistant_item_id
                                                = wire[c].item]
       ELSE /\ closeAt = "none"
            /\ last' = Event(c, "input_audio_buffer.speech_started", <<>>)
            /\ UNCHANGED <<session, ws, wire>>
    /\ UNCHANGED <<patients, appointments, orders, avail, today, aux, pool, calc>>

(***************************************************************************)
(* The tasks of a call (main.py: handle_media_stream) and how they end.    *)
(***************************************************************************)

\* main.py: receive_from_twilio when the caller's socket disconnects without a
\* stop event.  `raised` says whether the disconnect reaches the loop as
\* WebSocketDisconnect, whose handler clears call_active and closes the model
\* socket, or ends the iteration of websocket.iter_text(), after which the
\* task returns with nothing else done.
Disconnect(c, raised) ==
    /\ tasks[c].twilio = "running"
    /\ ws' = [ws EXCEPT ![c] = IF raised THEN "closed" ELSE @]
    /\ tasks' = [tasks EXCEPT ![c].running = IF raised THEN FALSE ELSE @,
                              ![c].twilio = "done",
                              ![c].caller = "gone"]
    /\ UNCHANGED <<patients, appointments, orders, session, last, avail, today,
                   clock, pool, complaints, portal, calc, wire>>

\* the model's server ends the connection
ServerClose(c) ==
    /\ ws[c] = "open"
    /\ ws' = [ws EXCEPT ![c] = "closed"]
    /\ UNCHANGED <<patients, appointments, orders, session, last, avail, today,
                   aux, pool, calc, wire>>

\* main.py: receive_from_openai: the iteration over the model socket ends when
\* the socket is closed (ConnectionClosed is caught), and the task returns
OpenAIReceiveEnds(c) ==
    /\ tasks[c].openai = "running"
    /\ ws[c] = "closed"
    /\ tasks' = [tasks EXCEPT ![c].openai = "done"]
    /\ UNCHANGED <<patients, appointments, orders, session, ws, last, avail,
                   today, clock, pool, complaints, portal, calc, wire>>

\* main.py: keep_alive after a sleep of 25 s: it returns when call_active is
\* cleared, and pings otherwise (safe_openai_send skips a closed socket and
\* raises nothing, so the loop goes on); beat is the parity of the rounds made
keep_alive(t) ==
    IF ~t.running THEN [t EXCEPT !.keep_alive = "done"]
    ELSE [t EXCEPT !.beat = 1 - @]

MaxUpdates == 2    \* session.update messages awaiting their answer that are counted

\* one more session.update awaits its session.updated; the count stops at
\* MaxUpdates
Awaited(updates, sent) ==
    IF sent # <<>> /\ updates < MaxUpdates THEN updates + 1 ELSE updates

\* a keep-alive round that sends nothing
Ping_none(open) == <<>>

\* main.py: keep_alive: the silent session.update of a round; safe_openai_send
\* skips a closed socket
Ping(open) == IF open THEN << [type |-> "session.update"] >> ELSE <<>>

KeepAlive(c) ==
    /\ tasks[c].keep_alive = "running"
    /\ tasks' = [tasks EXCEPT ![c] = keep_alive(@)]
    /\ last' = IF tasks[c].running
               THEN Event(c, "keep_alive", Ping(ws[c] = "open"))
               ELSE last
    /\ wire' = IF tasks[c].running
               THEN [wire EXCEPT ![c].updates = Awaited(@, Ping(ws[c] = "open"))]
               ELSE wire
    /\ UNCHANGED <<patients, appointments, orders, session, ws, avail, today,
                   clock, pool, complaints, portal, calc>>

\* main.py: receive_from_openai before its loop: it waits for session_ready,
\* which Twilio's start event sets, for at most 10 seconds, and then sends the
\* session configuration whether or not the session has been created
SendSessionConfig(c) ==
    /\ tasks[c].openai = "running"
    /\ wire[c].config = "waiting"
    /\ wire' = [wire EXCEPT ![c].config = IF session[c].exists THEN "sent"
                                          ELSE "sent_on_timeout",
                            ![c].updates = Awaited(@, Ping(ws[c] = "open"))]
    /\ last' = Event(c, "session_config", Ping(ws[c] = "open"))
    /\ UNCHANGED <<patients, appointments, orders, session, ws, avail, today,
                   aux, pool, calc>>

\* a greeting test that ignores greeting_sent
Greets_always(sess) == sess.exists

\* main.py: the test of the session.updated branch
Greets(sess) == sess.exists /\ ~sess.greeting_sent

CallStarted ==
    [type |-> "conversation.item.create", role |-> "user",
     text |-> "[CALL_STARTED]"]

\* main.py: what the greeting sends: the [CALL_STARTED] item and, 300 ms later,
\* response.create; safe_openai_send skips a send on a closed socket (closeAt
\* as in SendResult)
GreetingSent(closeAt) ==
    (IF closeAt = "before_output" THEN <<>> ELSE << CallStarted >>)
    \o
    (IF closeAt = "none" THEN << Msg("response.create", "", "") >> ELSE <<>>)

\* main.py: receive_from_openai, session.updated: the server's answer to a
\* session.update, read by the loop that starts once the configuration is sent
SessionUpdated(c, closeAt) ==
    /\ ws[c] = "open"
    /\ wire[c].config # "waiting"
    /\ wire[c].updates > 0
    /\ IF Greets(session[c])
       THEN /\ session' = [session EXCEPT ![c].greeting_sent = TRUE]
            /\ last' = Event(c, "session.updated", GreetingSent(closeAt))
            /\ ws' = [ws EXCEPT ![c] = IF closeAt = "none" THEN "open" ELSE "closed"]
            /\ wire' = [wire EXCEPT ![c].updates = @ - 1,
                                    ![c].greeted =
                                        @ \/ GreetingSent(closeAt) # <<>>]
       ELSE /\ closeAt = "none"
            /\ last' = Event(c, "session.updated", <<>>)
            /\ wire' = [wire EXCEPT ![c].updates = @ - 1]
            /\ UNCHANGED <<session, ws>>
    /\ UNCHANGED <<patients, appointments, orders, avail, today, aux, pool, calc>>

\* main.py: handle_media_stream: asyncio.wait(tasks, FIRST_EXCEPTION) returns
\* once every task is done, since none of them lets an exception out; the finally
\* block clears call_active and closes the model socket
Cleanup(c) ==
    /\ tasks[c].handler = "waiting"
    /\ tasks[c].twilio = "done" /\ tasks[c].openai = "done"
    /\ tasks[c].keep_alive = "done"
    /\ tasks' = [tasks EXCEPT ![c].handler = "done", ![c].running = FALSE]
    /\ ws' = [ws EXCEPT ![c] = "closed"]
    /\ UNCHANGED <<patients, appointments, orders, session, last, avail, today,
                   clock, pool, complaints, portal, calc, wire>>

(***************************************************************************)
(* The connection pool (db/db_connection.py).  pool.used counts the        *)
(* connections taken with getconn() and not handed back with putconn().    *)
(***************************************************************************)
MaxConn == 10

ScopeOf(kind, got, body_ran, body_raised, commits, rollbacks, putconns, raised) ==
    [kind |-> kind, got |-> got, body_ran |-> body_ran,
     body_raised |-> body_raised, commits |-> commits, rollbacks |-> rollbacks,
     putconns |-> putconns, raised |-> raised]

\* a scope that hands the connection back only when nothing was raised
db_cursor_no_finally(used, get_fails, cursor_fails, body_raises, commit_fails) ==
    IF get_fails \/ used >= MaxConn
    THEN [used |-> used,
          scope |-> ScopeOf("db_cursor", FALSE, FALSE, FALSE, 0, 0, 0, TRUE)]
    ELSE IF cursor_fails
    THEN [used |-> used + 1,
          scope |-> ScopeOf("db_cursor", TRUE, FALSE, FALSE, 0, 1, 0, TRUE)]
    ELSE IF body_raises
    THEN [used |-> used + 1,
          scope |-> ScopeOf("db_cursor", TRUE, TRUE, TRUE, 0, 1, 0, TRUE)]
    ELSE IF commit_fails
    THEN [used |-> used + 1,
          scope |-> ScopeOf("db_cursor", TRUE, TRUE, FALSE, 1, 1, 0, TRUE)]
    ELSE [used |-> used,
          scope |-> ScopeOf("db_cursor", TRUE, TRUE, FALSE, 1, 0, 1, FALSE)]

\* db/db_connection.py: db_cursor.  getconn() raises when the pool has no
\* connection left or cannot connect; conn.cursor(), the body and conn.commit()
\* may raise; the except block rolls back when a connection was taken and
\* re-raises; the finally block hands a taken connection back
db_cursor(used, get_fails, cursor_fails, body_raises, commit_fails) ==
    IF get_fails \/ used >= MaxConn
    THEN [used |-> used,
          scope |-> ScopeOf("db_cursor", FALSE, FALSE, FALSE, 0, 0, 0, TRUE)]
    ELSE IF cursor_fails
    THEN [used |-> (used + 1) - 1,
          scope |-> ScopeOf("db_cursor", TRUE, FALSE, FALSE, 0, 1, 1, TRUE)]
    ELSE IF body_raises
    THEN [used |-> (used + 1) - 1,
          scope |-> ScopeOf("db_cursor", TRUE, TRUE, TRUE, 0, 1, 1, TRUE)]
    ELSE IF commit_fails
    THEN [used |-> (used + 1) - 1,
          scope |-> ScopeOf("db_cursor", TRUE, TRUE, FALSE, 1, 1, 1, TRUE)]
    ELSE [used |-> (used + 1) - 1,
          scope |-> ScopeOf("db_cursor", TRUE, TRUE, FALSE, 1, 0, 1, FALSE)]

\* db/db_connection.py: get_db_connection, as the executors use it that do not
\* go through db_cursor: the connection is taken with getconn(); on success
\* the executor commits where it wrote and calls conn.close(), which closes
\* the connection without handing it back to the pool; on an exception the
\* executor returns its ERROR dictionary with the connection still taken.
\* No path calls putconn() or release_db_connection().
get_db_connection(used, get_fails, statement_fails) ==
    IF get_fails \/ used >= MaxConn
    THEN [used |-> used,
          scope |-> ScopeOf("get_db_connection", FALSE, FALSE, FALSE, 0, 0, 0, TRUE)]
    ELSE IF statement_fails
    THEN [used |-> used + 1,
          scope |-> ScopeOf("get_db_connection", TRUE, TRUE, TRUE, 0, 0, 0, TRUE)]
    ELSE [used |-> used + 1,
          scope |-> ScopeOf("get_db_connection", TRUE, TRUE, FALSE, 1, 0, 0, FALSE)]

\* the pool after a tool call whose executor runs one db_cursor scope; reached
\* says whether the call came as far as the executor's scope, and the scope
\* raised exactly when the executor reported the failure `fail`
Scoped(reached, fail) ==
    IF ~reached THEN UNCHANGED <<pool, calc, wire>>
    ELSE \E gf, cf, br, mf \in BOOLEAN :
            LET p == db_cursor(pool.used, gf, cf, br, mf)
            IN  /\ p.scope.raised = fail
                /\ pool' = p
                /\ UNCHANGED <<calc, wire>>

\* the pool after a tool call whose executor takes a raw connection
Raw(reached, fail) ==
    IF ~reached THEN UNCHANGED <<pool, calc, wire>>
    ELSE \E gf, sf \in BOOLEAN :
            LET p == get_db_connection(pool.used, gf, sf)
            IN  /\ p.scope.raised = fail
                /\ pool' = p
                /\ UNCHANGED <<calc, wire>>

\* db/db_connection.py: a db_cursor scope on its own, as save_complaint, the
\* business executors and the portal run it
DbCursorScope(get_fails, cursor_fails, body_raises, commit_fails) ==
    /\ pool' = db_cursor(pool.used, get_fails, cursor_fails, body_raises,
                         commit_fails)
    /\ UNCHANGED <<patients, appointments, orders, session, ws, last, avail,
                   today, aux, calc, wire>>

(***************************************************************************)
(* Complaints (complaint/complaint_executor.py and the file_complaint tool).*)
(***************************************************************************)
MaxComplaints == 2    \* complaint rows the table may hold

TreatmentWord == <<"t","r","e","a","t","m","e","n","t">>
GeneralWord   == <<"g","e","n","e","r","a","l">>

\* complaint/complaint_executor.py: save_complaint.  An absent argument is <<>>
\* (or 0 for an id).  The row's patient_id and appointment_id are foreign keys:
\* an id that names no row makes the INSERT raise.
save_complaint(C, P, A, complaint_category, complaint_text, first_name, last_name, contact_number, patient_id, appointment_id, fail) ==
    LET c0 == Lower(Strip(IF complaint_category = <<>> THEN GeneralWord
                          ELSE complaint_category))
        category == IF c0 = TreatmentWord THEN "treatment" ELSE "general"
        none == [status |-> "", touched |-> {}, complaints |-> C]
    IN  IF Strip(complaint_text) = <<>>
        THEN [none EXCEPT !.status = "MISSING_INFO"]
        ELSE IF category = "general"
        THEN IF first_name = <<>> \/ last_name = <<>> \/ contact_number = <<>>
             THEN [none EXCEPT !.status = "MISSING_INFO"]
             ELSE IF fail
             THEN [none EXCEPT !.status = "ERROR", !.touched = {"complaints"}]
             ELSE [status |-> "SAVED", touched |-> {"complaints"},
                   complaints |-> Append(C,
                       [category |-> "general", patient_id |-> 0,
                        appointment_id |-> 0,
                        patient_name |-> title_case(Strip(first_name) \o <<" ">>
                                                    \o Strip(last_name)),
                        contact_number |-> normalize_phone(contact_number),
                        status |-> "pending"])]
        ELSE IF patient_id = 0
        THEN [none EXCEPT !.status = "ERROR"]
        ELSE IF \/ fail
                \/ patient_id \notin DOMAIN P
                \/ appointment_id # 0 /\ appointment_id \notin DOMAIN A
        THEN [none EXCEPT !.status = "ERROR", !.touched = {"complaints"}]
        ELSE [status |-> "SAVED", touched |-> {"complaints"},
              complaints |-> Append(C,
                  [category |-> "treatment", patient_id |-> patient_id,
                   appointment_id |-> appointment_id,
                   patient_name |-> Strip(title_case(first_name \o <<" ">>
                                                     \o last_name)),
                   contact_number |-> IF contact_number = <<>> THEN <<>>
                                      ELSE normalize_phone(contact_number),
                   status |-> "pending"])]

\* a complaint filed under the patient the caller names
ComplaintPatient_named(sess, P, last_name) ==
    LET ids == {i \in DOMAIN P : Lower(P[i].last_name) = Lower(last_name)}
    IN  IF ids = {} THEN sess.patient_data
        ELSE PatientDict(CHOOSE i \in ids : TRUE, P[CHOOSE i \in ids : TRUE])

\* main.py: file_complaint, treatment: the patient is the session's own
ComplaintPatient(sess, P, last_name) == sess.patient_data

\* main.py: handle_function_call, file_complaint.  The general branch reads
\* nothing of the session; the treatment branch needs a verified session with
\* patient_data (a session that is None makes session.get raise: ERROR)
FileComplaint(c, complaint_category, complaint_text, first_name, last_name, contact_number, appointment_id, fail, call_id, closeAt) ==
    /\ ws[c] = "open"
    /\ Len(complaints) < MaxComplaints
    /\ LET category == Lower(IF complaint_category = <<>> THEN GeneralWord
                             ELSE complaint_category)
       IN  IF category = TreatmentWord
           THEN IF ~Verified(session[c]) \/ session[c].patient_data = NoPatient
                THEN /\ Answer(c, "file_complaint", call_id, "ERROR", {}, NoSlot,
                               closeAt)
                     /\ UNCHANGED complaints
                ELSE LET p == ComplaintPatient(session[c], patients, last_name)
                         r == save_complaint(complaints, patients, appointments,
                                  TreatmentWord, complaint_text, p.first_name,
                                  p.last_name, p.contact_number, p.patient_id,
                                  appointment_id, fail)
                     IN  /\ complaints' = r.complaints
                         /\ Answer(c, "file_complaint", call_id, r.status,
                                   r.touched, NoSlot, closeAt)
           ELSE LET r == save_complaint(complaints, patients, appointments,
                             GeneralWord, complaint_text, first_name, last_name,
                             contact_number, 0, 0, fail)
                IN  /\ complaints' = r.complaints
                    /\ Answer(c, "file_complaint", call_id, r.status, r.touched,
                              NoSlot, closeAt)
    /\ UNCHANGED <<patients, appointments, orders, session, avail, today,
                   clock, tasks, portal>>

\* the complaint_category arguments: the two of the schema, in other spellings,
\* one outside the schema and none
CategoryArgs ==
    {<<>>, GeneralWord, TreatmentWord,
     <<"T","r","e","a","t","m","e","n","t">>,
     <<" ","t","r","e","a","t","m","e","n","t">>,
     <<"b","i","l","l">>}

(***************************************************************************)
(* Supplier calls (business/business_executor.py and the supplier tools).  *)
(***************************************************************************)
\* business_executor.py: the company names of KNOWN_SUPPLIERS
KNOWN_SUPPLIERS ==
    << <<"A","u","s","D","e","n","t","a","l"," ","L","a","b","s"," ","P","t","y"," ","L","t","d">>,
       <<"M","e","d","P","r","o"," ","O","r","t","h","o","d","o","n","t","i","c","s">>,
       <<"S","o","u","t","h","e","r","n"," ","I","m","p","l","a","n","t"," ","S","u","p","p","l","y"," ","C","o",".">>,
       <<"P","r","e","c","i","s","i","o","n","D","e","n","t","u","r","e"," ","W","o","r","k","s">>,
       <<"O","r","a","l","C","r","a","f","t"," ","T","e","c","h","n","o","l","o","g","i","e","s">> >>

\* business_executor.py: check_supplier: the first supplier whose name holds
\* the given one or is held by it, without case
check_supplier(company_name) ==
    LET name_lower == Strip(Lower(company_name))
        hits == {i \in DOMAIN KNOWN_SUPPLIERS :
                    \/ Contains(Lower(KNOWN_SUPPLIERS[i]), name_lower)
                    \/ Contains(name_lower, Lower(KNOWN_SUPPLIERS[i]))}
    IN  IF company_name = <<>> \/ hits = {}
        THEN [status |-> "NOT_FOUND", company_name |-> <<>>]
        ELSE [status |-> "FOUND",
              company_name |-> KNOWN_SUPPLIERS[CHOOSE i \in hits :
                                                  \A j \in hits : i <= j]]

\* str.split()[0] and str.split()[-1]
FirstWord(s) == LET w == SplitWords(s, <<>>) IN IF w = <<>> THEN <<>> ELSE w[1]
LastWord(s)  == LET w == SplitWords(s, <<>>) IN IF w = <<>> THEN <<>> ELSE w[Len(w)]

\* the UPDATE of both order functions: every row among ids that is not
\* delivered and whose product holds the first word of product_name gets
\* new_status; RETURNING hands back one of them
UpdateOrders(O, ids, product_name, new_status, fail) ==
    LET hit == {i \in ids :
                   /\ Contains(Lower(O[i].product_name), Lower(FirstWord(product_name)))
                   /\ O[i].order_status # "delivered"}
    IN  IF fail \/ FirstWord(product_name) = <<>>
        THEN [status |-> "ERROR", touched |-> {"patient_orders"}, orders |-> O,
              keys |-> {"status", "message"}]
        ELSE IF hit = {}
        THEN [status |-> "NOT_FOUND", touched |-> {"patient_orders"}, orders |-> O,
              keys |-> {"status", "message"}]
        ELSE [status |-> "UPDATED", touched |-> {"patient_orders"},
              orders |-> [i \in DOMAIN O |->
                             IF i \in hit THEN [O[i] EXCEPT !.order_status = new_status]
                             ELSE O[i]],
              keys |-> {"status", "patient_name", "product_name", "new_status"}]

\* business_executor.py: update_order_by_patient_id; its UPDATED answer also
\* carries the order_id of the row
update_order_by_patient_id(O, patient_id, product_name, new_status, fail) ==
    IF patient_id = 0 \/ product_name = <<>>
    THEN [status |-> "MISSING_INFO", touched |-> {}, orders |-> O,
          keys |-> {"status", "message"}]
    ELSE LET r == UpdateOrders(O, {i \in DOMAIN O : O[i].patient_id = patient_id},
                               product_name, new_status, fail)
         IN  IF r.status = "UPDATED"
             THEN [r EXCEPT !.keys = r.keys \cup {"order_id"}]
             ELSE r

\* business_executor.py: update_order_status_by_patient_name
update_order_status_by_patient_name(O, patient_name, product_name, new_status, fail) ==
    IF patient_name = <<>> \/ product_name = <<>>
    THEN [status |-> "MISSING_INFO", touched |-> {}, orders |-> O,
          keys |-> {"status", "message"}]
    ELSE UpdateOrders(O,
             {i \in DOMAIN O :
                 \/ Contains(Lower(O[i].last_name),
                             Lower(IF Strip(patient_name) = <<>> THEN patient_name
                                   ELSE LastWord(patient_name)))
                 \/ Contains(Lower(O[i].first_name \o <<" ">> \o O[i].last_name),
                             Lower(patient_name))},
             product_name, new_status, fail)

\* main.py: handle_function_call, check_known_supplier.  Both branches write
\* into session["supplier_context"], which raises when the session is None
CheckKnownSupplier(c, company_name, call_id, closeAt) ==
    /\ ws[c] = "open"
    /\ LET r == check_supplier(company_name)
       IN  IF ~session[c].exists
           THEN /\ Answer(c, "check_known_supplier", call_id, "ERROR", {}, NoSlot,
                          closeAt)
                /\ UNCHANGED session
           ELSE /\ session' = [session EXCEPT
                       ![c].is_known_supplier = (r.status = "FOUND"),
                       ![c].company_name = IF r.status = "FOUND" THEN r.company_name
                                           ELSE session[c].company_name]
                /\ Answer(c, "check_known_supplier", call_id, r.status, {}, NoSlot,
                          closeAt)
    /\ UNCHANGED <<patients, appointments, orders, avail, today, aux>>

\* main.py: handle_function_call, update_supplier_order: by patient_id when
\* one is given, else by last name; the notes read the session's
\* supplier_context, which raises when the session is None.  Nothing here
\* reads is_known_supplier, and the executor's answer is sent as it is
UpdateSupplierOrder(c, patient_id, patient_last_name, product_name, fail, call_id, closeAt) ==
    /\ ws[c] = "open"
    /\ LET r == IF patient_id = 0 /\ patient_last_name = <<>>
                THEN [status |-> "ERROR", touched |-> {}, orders |-> orders,
                      keys |-> {"status", "message"}]
                ELSE IF ~session[c].exists
                THEN [status |-> "ERROR", touched |-> {}, orders |-> orders,
                      keys |-> {"status", "message"}]
                ELSE IF patient_id # 0
                THEN update_order_by_patient_id(orders, patient_id, product_name,
                                                "ready", fail)
                ELSE update_order_status_by_patient_name(orders, patient_last_name,
                                                         product_name, "ready", fail)
       IN  /\ orders' = r.orders
           /\ AnswerWith(c, "update_supplier_order", call_id, r.status,
                         r.touched, NoSlot, closeAt, r.keys)
    /\ UNCHANGED <<patients, appointments, session, avail, today, aux>>

\* what callers say: a supplier's name in part, a company that is no
\* supplier, blanks, nothing
CompanyArgs == {<<>>, <<" ">>, <<"m","e","d","p","r","o">>, <<"A","c","m","e"," ","D","e","n","t","a","l">>}
ProductArgs == {<<>>, <<" ">>, <<"d","e","n","t","u","r","e","s"," ","p","l","e","a","s","e">>, <<"G","u","a","r","d">>}
OrderNameArgs == {<<>>, <<"a","n","n"," ","l","e","e">>}

(***************************************************************************)
(* The staff portal (management_console.py).  portal is the browser         *)
(* session's logged_in flag together with the latest request and what it    *)
(* was answered and which tables it reached.                                *)
(***************************************************************************)
PORTAL_USERNAME == <<"a","d","m","i","n">>
PORTAL_PASSWORD == <<"c","l","i","n","i","c","2","0","2","6">>

\* the pages behind @login_required and the tables each one selects from
DataPages ==
    {"dashboard", "appointments", "patients", "patient_detail", "complaints",
     "orders", "business_logs"}
PageTables(route) ==
    CASE route \in {"dashboard", "patient_detail"} ->
            {"patients", "appointments", "complaints", "patient_orders"}
      [] route = "appointments" -> {"appointments", "patients"}
      [] route = "patients" -> {"patients"}
      [] route = "complaints" -> {"complaints"}
      [] route = "orders" -> {"patient_orders"}
      [] route = "business_logs" -> {"business_logs"}
StatusRoutes ==
    {"appointments/update-status", "complaints/update-status",
     "orders/update-status"}

Request(logged_in, route, method, response, touched) ==
    [logged_in |-> logged_in, route |-> route, method |-> method,
     username |-> <<>>, password |-> <<>>, response |-> response,
     touched |-> touched]

\* a guard that lets every request through
login_required_open(p) == TRUE

\* management_console.py: login_required: the view runs when the session
\* holds logged_in, else the answer is a redirect to login
login_required(p) == p.logged_in

\* management_console.py: login
login(method, username, password) ==
    /\ portal' =
          IF method = "POST"
          THEN IF /\ Strip(username) = PORTAL_USERNAME
                  /\ Strip(password) = PORTAL_PASSWORD
               THEN [Request(TRUE, "login", "POST", "redirect:dashboard", {})
                        EXCEPT !.username = username, !.password = password]
               ELSE [Request(portal.logged_in, "login", "POST", "login_page", {})
                        EXCEPT !.username = username, !.password = password]
          ELSE Request(portal.logged_in, "login", "GET", "login_page", {})
    /\ UNCHANGED <<patients, appointments, orders, session, ws, last, avail,
                   today, clock, tasks, complaints>>

\* management_console.py: logout
logout ==
    /\ portal' = Request(FALSE, "logout", "POST", "redirect:login", {})
    /\ UNCHANGED <<patients, appointments, orders, session, ws, last, avail,
                   today, clock, tasks, complaints>>

\* management_console.py: index
index ==
    /\ portal' = Request(portal.logged_in, "", "GET", "redirect:dashboard", {})
    /\ UNCHANGED <<patients, appointments, orders, session, ws, last, avail,
                   today, clock, tasks, complaints>>

\* management_console.py: dashboard, appointments, patients, patient_detail,
\* complaints, orders, business_logs
DataPage(route) ==
    /\ portal' = IF login_required(portal)
                 THEN Request(portal.logged_in, route, "GET", "page",
                              PageTables(route))
                 ELSE Request(portal.logged_in, route, "GET", "redirect:login", {})
    /\ UNCHANGED <<patients, appointments, orders, session, ws, last, avail,
                   today, clock, tasks, complaints>>

\* one of the three status forms: the table's rows after the UPDATE of row id,
\* unless an id or status is missing (0 and "") or the statement raises
StatusUpdate(rows, field, id, new_status, raises) ==
    IF id = 0 \/ new_status = "" \/ raises \/ id \notin DOMAIN rows THEN rows
    ELSE [rows EXCEPT ![id] = [rows[id] EXCEPT ![field] = new_status]]

StatusRequest(route, table, id, new_status) ==
    IF ~login_required(portal)
    THEN Request(portal.logged_in, route, "POST", "redirect:login", {})
    ELSE Request(portal.logged_in, route, "POST", "redirect:" \o table,
                 IF id = 0 \/ new_status = "" THEN {} ELSE {table})

\* management_console.py: update_appointment_status
update_appointment_status(appointment_id, new_status, fail) ==
    /\ portal' = StatusRequest("appointments/update-status", "appointments",
                               appointment_id, new_status)
    /\ appointments' = IF login_required(portal)
                       THEN StatusUpdate(appointments, "status", appointment_id,
                                         new_status, fail)
                       ELSE appointments
    /\ UNCHANGED <<patients, orders, session, ws, last, avail, today, clock,
                   tasks, complaints>>

\* management_console.py: update_complaint_status
update_complaint_status(complaint_id, new_status, fail) ==
    /\ portal' = StatusRequest("complaints/update-status", "complaints",
                               complaint_id, new_status)
    /\ complaints' = IF login_required(portal)
                     THEN StatusUpdate(complaints, "status", complaint_id,
                                       new_status, fail)
                     ELSE complaints
    /\ UNCHANGED <<patients, appointments, orders, session, ws, last, avail,
                   today, clock, tasks>>

\* management_console.py: update_order_status; the table's CHECK lets only
\* placed, ready and delivered in
update_order_status(order_id, new_status, fail) ==
    /\ portal' = StatusRequest("orders/update-status", "patient_orders",
                               order_id, new_status)
    /\ orders' = IF login_required(portal)
                 THEN StatusUpdate(orders, "order_status", order_id, new_status,
                                   fail \/ new_status \notin
                                              {"placed", "ready", "delivered"})
                 ELSE orders
    /\ UNCHANGED <<patients, appointments, session, ws, last, avail, today,
                   clock, tasks, complaints>>

\* what is typed into the login form
UsernameArgs == {<<"a","d","m","i","n">>, <<" ","a","d","m","i","n"," ">>, <<"A","d","m","i","n">>}
PasswordArgs == {<<"c","l","i","n","i","c","2","0","2","6">>, <<"c","l","i","n","i","c","2","0","2","6"," ">>, <<"a","d","m","i","n">>}
OrderStatuses == {"", "ready", "pending"}
ComplaintStatuses == {"", "resolved"}

(***************************************************************************)
(* Functions of the code on their own: calc holds the argument drawn and   *)
(* the result the function gave for it.                                    *)
(***************************************************************************)
\* everything but calc
program == <<patients, appointments, orders, session, ws, last, avail, today,
             clock, tasks, pool, complaints, portal, wire>>

RECURSIVE Concats(_, _)
\* the strings made of n pieces
Concats(pieces, n) ==
    IF n = 0 THEN {<<>>}
    ELSE {a \o b : a \in pieces, b \in Concats(pieces, n - 1)}

MaxPieces == 3    \* pieces a phone text is made of

\* pieces of what is given as a phone number: digits, separators, words
PhonePieces ==
    {<<>>, <<"0","4">>, <<"1","2","-","3","4">>, <<" ","5","6","7","8"," ">>, <<"o","h">>, <<"9","9","9","9","9","9","9">>}
PhoneInputs == Concats(PhonePieces, MaxPieces)

\* utils/phone_utils.py: normalize_phone applied to a text
NormalizePhone(phone) ==
    /\ calc' = [fn |-> "normalize_phone", arg |-> phone,
                out |-> normalize_phone(phone)]
    /\ UNCHANGED program

MaxDays == 7    \* midnights that may pass

\* date.today() moving on
Midnight ==
    /\ today < FirstDay + MaxDays
    /\ today' = today + 1
    /\ UNCHANGED <<patients, appointments, orders, session, ws, last, avail,
                   clock, tasks, pool, complaints, portal, calc, wire>>

\* appointment/executor.py: parse_date_str applied to a phrase on the day `today`
ParseDate(p) ==
    /\ calc' = [fn |-> "parse_date_str", arg |-> [phrase |-> p, today |-> today],
                out |-> parse_date_str(p, today)]
    /\ UNCHANGED program

\* appointment/executor.py: parse_time_str applied to a phrase
ParseTime(p) ==
    /\ calc' = [fn |-> "parse_time_str", arg |-> p, out |-> parse_time_str(p)]
    /\ UNCHANGED program

\* date phrases: keywords alone and together, written dates, a text that is
\* no date, nothing
DatePhrases ==
    {DateP("words", keys, 0) :
        keys \in SUBSET {"today", "tomorrow", "monday", "thursday", "sunday"}}
    \cup {DateP("DD/MM/YYYY", {}, FirstDay + 3), IsoDate(FirstDay),
          DateP("other", {}, 0), DateP("", {}, 0)}

\* time phrases: one or two digits for the hour and two for the minute, with
\* and without am or pm, the words, a text that is no time, nothing
TimePhrases ==
    {TimeP("H:MM", h, m, "") : h \in {0, 7, 23, 24, 99}, m \in {0, 59, 60, 99}}
    \cup {TimeP("12h", h, m, w) : h \in {0, 3, 12, 13}, m \in {0, 30, 75},
                                  w \in {"am", "pm"}}
    \cup {TimeP("word", 0, 0, w) : w \in {"morning", "afternoon", "evening"}}
    \cup {TimeP("other", 0, 0, ""), TimeP("", 0, 0, "")}

(***************************************************************************)
(* The scripted flows.  A caller's sentence is [keys, text, dob] for the   *)
(* verification flow: the keywords its lower-cased text contains, the text *)
(* where a name or a number is taken from it, and the date of birth it     *)
(* says.  Each step is a function of the sentence and the session.         *)
(***************************************************************************)
Sentence(keys, text, dob) == [keys |-> keys, text |-> text, dob |-> dob]

\* verification/verification_controller.py: the handlers table of handle_verification
VerificationHandlers ==
    {"ask_new_or_existing", "existing_ask_lastname", "existing_ask_dob",
     "existing_disambiguate_contact", "existing_confirm_contact",
     "new_ask_firstname", "new_ask_lastname", "new_ask_dob", "new_ask_contact",
     "new_confirm_contact", "new_ask_insurance"}

\* verification/verification_controller.py: the new keywords are tried first
detect_new_or_existing(u) ==
    IF "new" \in u.keys THEN "new"
    ELSE IF "existing" \in u.keys THEN "existing" ELSE "None"

\* verification/verification_controller.py: a date the direct parse takes,
\* else day, month name and year put together unchecked, else the text as said
parse_spoken_dob(p) ==
    LET attempt == dob_to_db_format(p)
    IN  IF attempt.form = "DD-MM-YYYY" THEN attempt
        ELSE IF p.form \in {"D Month YYYY", "D Mon YYYY", "Dth Month YYYY"}
                /\ p.m \in 1..12
        THEN Dob("DD-MM-YYYY", p.d, p.m, p.y)
        ELSE p

\* the session with verification_step set
AtStep(sess, step) == [sess EXCEPT !.flow.verification_step = step]

\* verification/verification_controller.py: _step_ask_new_or_existing
step_ask_new_or_existing(u, sess) ==
    CASE detect_new_or_existing(u) = "existing" -> AtStep(sess, "existing_ask_lastname")
      [] detect_new_or_existing(u) = "new"      -> AtStep(sess, "new_ask_firstname")
      [] OTHER -> sess

\* verification/verification_controller.py: _step_existing_ask_dob; the step
\* is "noop" while the patient is looked up
step_existing_ask_dob(u, sess, P, fail) ==
    LET dob == parse_spoken_dob(u.dob)
        s1 == [sess EXCEPT !.flow.pending_dob = dob,
                           !.flow.verification_step = "noop"]
        result == verify_by_lastname_dob(P, s1.flow.pending_last_name, dob, fail)
    IN  CASE result.status = "VERIFIED" ->
                AtStep([s1 EXCEPT !.flow.pending_patient = result.patient],
                       "existing_confirm_contact")
          [] result.status = "MULTIPLE_FOUND" ->
                AtStep(s1, "existing_disambiguate_contact")
          [] OTHER -> AtStep(s1, "ask_new_or_existing")

\* verification/verification_controller.py: _step_existing_disambiguate_contact
step_existing_disambiguate_contact(u, sess, P, fail) ==
    LET phone == extract_phone_from_text(u.text)
    IN  IF phone = <<>> THEN {sess}
        ELSE {IF result.status = "VERIFIED"
              THEN AtStep([sess EXCEPT !.flow.pending_patient = result.patient],
                          "existing_confirm_contact")
              ELSE AtStep(sess, "ask_new_or_existing") :
                 result \in verify_by_lastname_dob_contact(P,
                                sess.flow.pending_last_name,
                                sess.flow.pending_dob, phone, fail)}

\* verification/verification_controller.py: _step_existing_confirm_contact;
\* yes is tried before no
step_existing_confirm_contact(u, sess) ==
    CASE "yes" \in u.keys ->
            [sess EXCEPT !.verified = TRUE,
                         !.patient_data = sess.flow.pending_patient,
                         !.flow.pending_patient = NoPatient,
                         !.flow.verification_step = "done"]
      [] "no" \in u.keys ->
            [sess EXCEPT !.flow.pending_patient = NoPatient,
                         !.flow.pending_last_name = <<>>,
                         !.flow.pending_dob = EmptyDob,
                         !.flow.verification_step = "ask_new_or_existing"]
      [] OTHER -> sess

\* verification/verification_controller.py: _step_new_confirm_contact
step_new_confirm_contact(u, sess) ==
    CASE "yes" \in u.keys -> AtStep(sess, "new_ask_insurance")
      [] "no" \in u.keys ->
            AtStep([sess EXCEPT !.flow.new_contact = <<>>], "new_ask_contact")
      [] OTHER -> sess

\* verification/verification_controller.py: _step_new_ask_insurance creates
\* the account, drops the new_ keys and ends the flow or starts it again
step_new_ask_insurance(u, sess, P, fail) ==
    LET result == create_new_patient(P, sess.flow.new_first_name,
                                     sess.flow.new_last_name, sess.flow.new_dob,
                                     sess.flow.new_contact, fail)
        s1 == [sess EXCEPT !.flow.new_first_name = <<>>,
                           !.flow.new_last_name = <<>>,
                           !.flow.new_dob = EmptyDob,
                           !.flow.new_contact = <<>>]
    IN  [sess |-> IF result.status = "CREATED"
                  THEN [s1 EXCEPT !.verified = TRUE,
                                  !.patient_data = result.patient,
                                  !.flow.verification_step = "done"]
                  ELSE AtStep(s1, "ask_new_or_existing"),
         patients |-> result.patients]

\* verification/verification_controller.py: handle_verification; the step is
\* "ask_new_or_existing" when the key is absent, and a step without a handler
\* starts the flow again.  The value is the set of (session, patients) pairs
\* the turn can end in.
handle_verification(u, sess, P, fail) ==
    LET step == IF sess.flow.verification_step = "" THEN "ask_new_or_existing"
                ELSE sess.flow.verification_step
        Same(S) == {[sess |-> s, patients |-> P] : s \in S}
    IN  CASE step = "ask_new_or_existing" -> Same({step_ask_new_or_existing(u, sess)})
          [] step = "existing_ask_lastname" ->
                Same({AtStep([sess EXCEPT !.flow.pending_last_name = Strip(u.text)],
                             "existing_ask_dob")})
          [] step = "existing_ask_dob" -> Same({step_existing_ask_dob(u, sess, P, fail)})
          [] step = "existing_disambiguate_contact" ->
                Same(step_existing_disambiguate_contact(u, sess, P, fail))
          [] step = "existing_confirm_contact" ->
                Same({step_existing_confirm_contact(u, sess)})
          [] step = "new_ask_firstname" ->
                Same({AtStep([sess EXCEPT !.flow.new_first_name =
                                              title_case(Strip(u.text))],
                             "new_ask_lastname")})
          [] step = "new_ask_lastname" ->
                Same({AtStep([sess EXCEPT !.flow.new_last_name =
                                              title_case(Strip(u.text))],
                             "new_ask_dob")})
          [] step = "new_ask_dob" ->
                Same({AtStep([sess EXCEPT !.flow.new_dob = parse_spoken_dob(u.dob)],
                             "new_ask_contact")})
          [] step = "new_ask_contact" ->
                Same({AtStep([sess EXCEPT !.flow.new_contact =
                                              extract_phone_from_text(u.text)],
                             "new_confirm_contact")})
          [] step = "new_confirm_contact" -> Same({step_new_confirm_contact(u, sess)})
          [] step = "new_ask_insurance" -> {step_new_ask_insurance(u, sess, P, fail)}
          [] OTHER -> Same({AtStep(sess, "ask_new_or_existing")})

\* a turn of the verification flow on call c
HandleVerification(c, u, fail) ==
    /\ ws[c] = "open"
    /\ session[c].exists
    /\ session[c].flow.verification_step = "new_ask_insurance"
          => Len(patients) < MaxPatients
    /\ \E r \in handle_verification(u, session[c], patients, fail) :
          /\ session' = [session EXCEPT ![c] = r.sess]
          /\ patients' = r.patients
          /\ last' = [Event(c, "handle_verification", <<>>) EXCEPT
                         !.status = r.sess.flow.verification_step]
    /\ UNCHANGED <<appointments, orders, ws, avail, today, aux>>

\* A sentence of the booking flow is [keys, treatment, date, time, dentist]:
\* the phrases its text contains and what the extractors take from it, with
\* "", NoDate, NoTime and <<>> for None
Wish(keys, treatment, date, time, dentist) == [keys |-> keys, treatment |-> treatment, date |-> date, time |-> time, dentist |-> dentist]
AnyDentist == <<"a","n","y">>

\* appointment/slot_controller.py: the handlers table of handle_booking
BookingHandlers ==
    {"ask_treatment", "ask_datetime", "ask_dentist", "check_availability",
     "confirm_details", "execute_booking"}

\* the session with booking_step set
AtBookingStep(sess, step) == [sess EXCEPT !.flow.booking_step = step]

\* what a turn of the booking flow ends in: the session, the appointment rows
\* and the exception that left the handler, "" when it returned
Turn(sess, A, raised) == [sess |-> sess, appointments |-> A, raised |-> raised]

\* appointment/slot_controller.py: _step_ask_treatment
step_ask_treatment(u, sess) ==
    IF "trigger" \in u.keys
    THEN AtBookingStep([sess EXCEPT !.flow.booking_data =
                            [NoBookingData EXCEPT !.exists = TRUE]],
                       "ask_treatment")
    ELSE IF u.treatment # ""
    THEN AtBookingStep([sess EXCEPT !.flow.booking_data =
                            [NoBookingData EXCEPT !.exists = TRUE,
                                !.preferred_treatment = u.treatment]],
                       "ask_datetime")
    ELSE sess

\* appointment/slot_controller.py: _step_ask_datetime
step_ask_datetime(u, sess) ==
    LET data == sess.flow.booking_data
        date_str == IF u.date = NoDate /\ u.time # NoTime
                    THEN data.pending_date ELSE u.date
    IN  IF u.date = NoDate /\ u.time = NoTime THEN sess
        ELSE IF u.date # NoDate /\ u.time = NoTime
        THEN [sess EXCEPT !.flow.booking_data.pending_date = u.date]
        ELSE IF date_str = NoDate THEN sess
        ELSE AtBookingStep([sess EXCEPT
                                !.flow.booking_data.preferred_date = date_str,
                                !.flow.booking_data.preferred_time = u.time,
                                !.flow.booking_data.pending_date = NoDate],
                           "ask_dentist")

\* appointment/slot_controller.py: _step_execute_booking; patient_data is
\* None until the caller is verified, and None has no get
step_execute_booking(u, sess, A, now, fail) ==
    LET data == sess.flow.booking_data
        result == book_appointment(A, sess.patient_data.patient_id, data.db.date,
                                   data.db.time, data.preferred_dentist, now, fail)
    IN  CASE "yes" \in u.keys ->
                IF sess.patient_data = NoPatient
                THEN Turn(sess, A, "AttributeError")
                ELSE Turn([sess EXCEPT !.flow.booking_step = "",
                                       !.flow.booking_data = NoBookingData],
                          result.appointments, "")
          [] "no" \in u.keys ->
                Turn(AtBookingStep([sess EXCEPT !.flow.booking_data =
                                        [NoBookingData EXCEPT !.exists = TRUE]],
                                   "ask_treatment"), A, "")
          [] OTHER -> Turn(sess, A, "")

\* appointment/slot_controller.py: _step_confirm_details; said is whether the
\* step has a sentence of the caller or follows the availability check
step_confirm_details(said, u, sess, A, now, fail) ==
    LET data == sess.flow.booking_data
        s1 == IF said /\ "yes" \in u.keys /\ data.alt # NoSlot
              THEN [sess EXCEPT !.flow.booking_data.confirmed = data.alt,
                                !.flow.booking_data.db = data.alt,
                                !.flow.booking_data.alt = NoSlot]
              ELSE sess
    IN  IF said /\ "yes" \notin u.keys /\ "no" \in u.keys
        THEN Turn(AtBookingStep(sess, "ask_datetime"), A, "")
        ELSE IF said /\ u.keys \cap {"yes", "no"} = {}
                /\ sess.flow.booking_step = "execute_booking"
        THEN step_execute_booking(u, sess, A, now, fail)
        ELSE IF s1.patient_data = NoPatient
        THEN Turn(s1, A, "AttributeError")
        ELSE Turn(AtBookingStep(s1, "execute_booking"), A, "")

\* appointment/slot_controller.py: _step_check_availability reads the keys of
\* the executor's answer; a key the answer lacks raises KeyError where it is
\* read, after the assignments before it
step_check_availability(u, sess, A, now, fail) ==
    LET data == sess.flow.booking_data
        any == data.preferred_dentist = AnyDentist
        result == IF any
                  THEN find_available_dentist(A, data.preferred_date,
                                              data.preferred_time, now, fail)
                  ELSE check_dentist_availability(A, data.preferred_date,
                           data.preferred_time, data.preferred_dentist, now, fail)
        keys == AvailabilityKeys(result.status)
        free == [sess EXCEPT !.flow.booking_data.preferred_dentist =
                                  result.slot.dentist,
                             !.flow.booking_data.confirmed = result.slot]
    IN  CASE result.status \in {"FOUND", "AVAILABLE"} ->
                IF {"date_db", "time_db"} \subseteq keys
                THEN step_confirm_details(FALSE, u,
                         AtBookingStep([free EXCEPT !.flow.booking_data.db =
                                                        result.slot],
                                       "confirm_details"), A, now, fail)
                ELSE Turn(free, A, "KeyError")
          [] result.status = "NONE_AVAILABLE_SUGGEST" ->
                IF {"suggested_dentist", "suggested_date", "suggested_time",
                    "suggested_date_db", "suggested_time_db"} \subseteq keys
                THEN Turn(AtBookingStep([free EXCEPT !.flow.booking_data.db =
                                                         result.slot],
                                        "confirm_alternative"), A, "")
                ELSE Turn(sess, A, "KeyError")
          [] result.status = "NOT_AVAILABLE" /\ "suggested_date" \in keys ->
                Turn(AtBookingStep([sess EXCEPT !.flow.booking_data.alt =
                                                    result.slot],
                                   "confirm_alternative"), A, "")
          [] OTHER -> Turn(AtBookingStep(sess, "ask_datetime"), A, "")

\* appointment/slot_controller.py: _step_ask_dentist goes on to the
\* availability check in the same turn
step_ask_dentist(u, sess, A, now, fail) ==
    IF u.dentist = <<>> THEN Turn(sess, A, "")
    ELSE step_check_availability(u,
             AtBookingStep([sess EXCEPT !.flow.booking_data.preferred_dentist =
                                            u.dentist],
                           "check_availability"), A, now, fail)

\* appointment/slot_controller.py: handle_booking; the step is "ask_treatment"
\* when the key is absent, _cancel_flow drops the flow's keys, and a step
\* without a handler starts the flow again
handle_booking(u, sess, A, now, fail) ==
    LET step == IF sess.flow.booking_step = "" THEN "ask_treatment"
                ELSE sess.flow.booking_step
    IN  IF "cancel" \in u.keys /\ step # "ask_treatment"
        THEN Turn([sess EXCEPT !.flow.booking_step = "",
                               !.flow.booking_data = NoBookingData], A, "")
        ELSE CASE step = "ask_treatment" -> Turn(step_ask_treatment(u, sess), A, "")
               [] step = "ask_datetime" -> Turn(step_ask_datetime(u, sess), A, "")
               [] step = "ask_dentist" -> step_ask_dentist(u, sess, A, now, fail)
               [] step = "check_availability" ->
                     step_check_availability(u, sess, A, now, fail)
               [] step = "confirm_details" ->
                     step_confirm_details(TRUE, u, sess, A, now, fail)
               [] step = "execute_booking" ->
                     step_execute_booking(u, sess, A, now, fail)
               [] OTHER -> Turn(AtBookingStep(sess, "ask_treatment"), A, "")

\* a turn of the booking flow on call c
HandleBooking(c, u, fail) ==
    /\ ws[c] = "open"
    /\ session[c].exists
    /\ session[c].flow.booking_step \in {"confirm_details", "execute_booking"}
          => Len(appointments) < MaxAppts
    /\ LET r == handle_booking(u, session[c], appointments, today, fail)
       IN  /\ session' = [session EXCEPT ![c] = r.sess]
           /\ appointments' = r.appointments
           /\ last' = [Event(c, "handle_booking", <<>>) EXCEPT
                          !.status = r.sess.flow.booking_step,
                          !.message = r.raised]
    /\ UNCHANGED <<patients, orders, ws, avail, today, aux>>

(***************************************************************************)
(* Specifications.  Next is every tool of a patient's call, for one call;   *)
(* the others keep the operations of one concern and widen its inputs.     *)
(* The connection pool is counted in SpecPool only; elsewhere a statement  *)
(* that cannot get a connection is the input fail.                         *)
(***************************************************************************)
OneCall == {1}

Next ==
    \/ \E c \in OneCall : TwilioStart(c) /\ UNCHANGED <<pool, calc, wire>>
    \/ \E c \in OneCall : Hangup(c) /\ UNCHANGED <<pool, calc, wire>>
    \/ \E c \in OneCall, ln \in {<<"r","a","y">>}, dob \in DobArgs,
          fail \in BOOLEAN, cid \in {"call_a"}, closeAt \in CloseAts :
          VerifyExistingPatient(c, ln, dob, fail, cid, closeAt) /\ UNCHANGED <<pool, calc, wire>>
    \/ \E c \in OneCall, ln \in {<<"r","a","y">>},
          dob \in {RayDob},
          ph \in PhoneArgs, fail \in BOOLEAN, cid \in {"call_b"},
          closeAt \in CloseAts :
          VerifyWithContactNumber(c, ln, dob, ph, fail, cid, closeAt) /\ UNCHANGED <<pool, calc, wire>>
    \/ \E c \in OneCall, fn \in NewFirstArgs, ln \in NewLastArgs, dob \in NewDobArgs,
          ph \in {PhoneB}, fail \in BOOLEAN, cid \in {"call_a"},
          closeAt \in CloseAts :
          CreateNewPatient(c, fn, ln, dob, ph, fail, cid, closeAt) /\ UNCHANGED <<pool, calc, wire>>
    \/ \E c \in OneCall, d \in {DateP("words", {"tomorrow"}, 0)},
          t \in {TimeP("", 0, 0, ""), TimeP("12h", 3, 0, "pm")},
          n \in {Emily}, fail \in BOOLEAN, cid \in {"call_b"},
          closeAt \in CloseAts :
          CheckSlotAvailability(c, d, t, n, fail, cid, closeAt) /\ UNCHANGED <<pool, calc, wire>>
    \/ \E c \in OneCall, d \in {DateP("words", {"tomorrow"}, 0)},
          t \in {TimeP("", 0, 0, ""), TimeP("12h", 3, 0, "pm")},
          n \in {DrCarter}, fail \in BOOLEAN, cid \in CallIds,
          closeAt \in CloseAts :
          BookAppointment(c, d, t, n, fail, cid, closeAt) /\ UNCHANGED <<pool, calc, wire>>
    \/ \E c \in OneCall, fail \in BOOLEAN, cid \in {"call_a"},
          closeAt \in CloseAts :
          GetMyAppointments(c, fail, cid, closeAt) /\ UNCHANGED <<pool, calc, wire>>
    \/ \E c \in OneCall, i \in 1..2,
          f \in {Fields(<<"x">>, DateP("", {}, 0), TimeP("", 0, 0, ""), <<>>)},
          failGet \in {FALSE}, fail \in BOOLEAN, cid \in {"call_b"},
          closeAt \in CloseAts :
          UpdateMyAppointment(c, i, f, failGet, fail, cid, closeAt) /\ UNCHANGED <<pool, calc, wire>>
    \/ \E c \in OneCall, i \in 1..2, failGet \in {FALSE},
          fail \in BOOLEAN, cid \in {"call_a"}, closeAt \in CloseAts :
          CancelMyAppointment(c, i, failGet, fail, cid, closeAt) /\ UNCHANGED <<pool, calc, wire>>
    \/ \E c \in OneCall, fn \in EnquiryTools, fail \in BOOLEAN, cid \in {"call_b"},
          closeAt \in CloseAts :
          Enquiry(c, fn, fail, cid, closeAt) /\ UNCHANGED <<pool, calc, wire>>
    \/ \E id \in 0..1, fail \in BOOLEAN : CancelById(id, fail) /\ UNCHANGED <<pool, calc, wire>>
    \/ \E id \in 1..MaxAppts, st \in {"completed"} : StaffUpdateStatus(id, st) /\ UNCHANGED <<pool, calc, wire>>

Spec == Init /\ [][Next]_vars

\* booking, moving and cancelling appointments: one verified caller, the flow
\* controller and the staff portal, with the model socket staying open
NextBooking ==
    \/ \E c \in OneCall : TwilioStart(c) /\ UNCHANGED <<pool, calc, wire>>
    \/ \E c \in OneCall, fail \in BOOLEAN :
          VerifyExistingPatient(c, <<"r","a","y">>, RayDob, fail, "call_a", "none") /\ UNCHANGED <<pool, calc, wire>>
    \/ \E c \in OneCall, d \in {DateP("", {}, 0), DateP("words", {"tomorrow"}, 0)},
          t \in {TimeP("12h", 3, 0, "pm")}, n \in DentistArgs, fail \in BOOLEAN :
          CheckSlotAvailability(c, d, t, n, fail, "call_a", "none") /\ UNCHANGED <<pool, calc, wire>>
    \/ \E c \in OneCall, d \in DateArgs \ {DateP("words", {"monday"}, 0)},
          t \in TimeArgs \ {TimeP("", 0, 0, "")}, n \in {DrCarter},
          fail \in BOOLEAN :
          BookAppointment(c, d, t, n, fail, "call_a", "none") /\ UNCHANGED <<pool, calc, wire>>
    \/ \E c \in OneCall, fail \in BOOLEAN :
          GetMyAppointments(c, fail, "call_a", "none") /\ UNCHANGED <<pool, calc, wire>>
    \/ \E c \in OneCall, i \in 0..MaxAppts, f \in FieldArgs,
          failGet \in BOOLEAN, fail \in BOOLEAN :
          UpdateMyAppointment(c, i, f, failGet, fail, "call_a", "none") /\ UNCHANGED <<pool, calc, wire>>
    \/ \E c \in OneCall, i \in 0..MaxAppts, failGet \in BOOLEAN,
          fail \in BOOLEAN :
          CancelMyAppointment(c, i, failGet, fail, "call_a", "none") /\ UNCHANGED <<pool, calc, wire>>
    \/ \E id \in 0..(MaxAppts + 1), fail \in BOOLEAN : CancelById(id, fail) /\ UNCHANGED <<pool, calc, wire>>
    \/ \E id \in 1..MaxAppts, st \in StaffStatuses : StaffUpdateStatus(id, st) /\ UNCHANGED <<pool, calc, wire>>

SpecBooking == Init /\ [][NextBooking]_vars

\* two calls at once, each verifying, asking for a slot and booking it: the first
\* caller is Ray, the others give Lee's name, date of birth and second number
NextRace ==
    \/ \E c \in Calls : TwilioStart(c) /\ UNCHANGED <<pool, calc, wire>>
    \/ \E c \in {1} :
          VerifyExistingPatient(c, <<"r","a","y">>, RayDob,
                                FALSE, "call_a", "none") /\ UNCHANGED <<pool, calc, wire>>
    \/ \E c \in Calls \ {1} :
          VerifyWithContactNumber(c, <<" ","L","E","E">>,
                                  Dob("D/M/YYYY", 12, 12, 2006), PhoneB, FALSE,
                                  "call_a", "none") /\ UNCHANGED <<pool, calc, wire>>
    \/ \E c \in Calls, d \in {DateP("words", {"tomorrow"}, 0)},
          t \in {TimeP("12h", 3, 0, "pm"), TimeP("H:MM", 15, 0, "")},
          n \in DentistArgs, fail \in BOOLEAN :
          CheckSlotAvailability(c, d, t, n, fail, "call_a", "none") /\ UNCHANGED <<pool, calc, wire>>
    \/ \E c \in Calls, d \in {DateP("words", {"tomorrow"}, 0), IsoDate(FirstDay + 1)},
          t \in {TimeP("12h", 3, 0, "pm")}, n \in {DrCarter}, fail \in BOOLEAN :
          BookAppointment(c, d, t, n, fail, "call_b", "none") /\ UNCHANGED <<pool, calc, wire>>

SpecRace == Init /\ [][NextRace]_vars

\* verification and registration, two calls at once
NextVerify ==
    \/ \E c \in Calls : TwilioStart(c) /\ UNCHANGED <<pool, calc, wire>>
    \/ \E c \in Calls : Hangup(c) /\ UNCHANGED <<pool, calc, wire>>
    \/ \E c \in Calls, ln \in LastNameArgs, dob \in DobArgs, fail \in BOOLEAN,
          closeAt \in Open :
          VerifyExistingPatient(c, ln, dob, fail, "call_a", closeAt) /\ UNCHANGED <<pool, calc, wire>>
    \/ \E c \in Calls, ln \in LastNameArgs, dob \in DobArgs, ph \in PhoneArgs,
          fail \in BOOLEAN, closeAt \in Open :
          VerifyWithContactNumber(c, ln, dob, ph, fail, "call_a", closeAt) /\ UNCHANGED <<pool, calc, wire>>
    \/ \E c \in Calls, fn \in NewFirstArgs, ln \in NewLastArgs, dob \in NewDobArgs,
          ph \in NewPhoneArgs, fail \in BOOLEAN, closeAt \in Open :
          CreateNewPatient(c, fn, ln, dob, ph, fail, "call_a", closeAt) /\ UNCHANGED <<pool, calc, wire>>

SpecVerify == Init /\ [][NextVerify]_vars

\* playback and barge-in for one call that can verify, book and list
NextBarge ==
    \/ \E c \in OneCall : TwilioStart(c) /\ UNCHANGED <<pool, calc, wire>>
    \/ Tick
    \/ \E c \in OneCall :
          VerifyExistingPatient(c, <<"r","a","y">>, RayDob, FALSE, "call_a", "none")
          /\ UNCHANGED <<pool, calc, wire>>
    \/ \E c \in OneCall :
          BookAppointment(c, DateP("words", {"tomorrow"}, 0),
                          TimeP("12h", 3, 0, "pm"), DrCarter, FALSE, "call_a", "none")
          /\ UNCHANGED <<pool, calc, wire>>
    \/ \E c \in OneCall : GetMyAppointments(c, FALSE, "call_a", "none") /\ UNCHANGED <<pool, calc, wire>>
    \/ \E c \in OneCall, id \in ItemIds : OutputItemAdded(c, id)
    \/ \E c \in OneCall : AudioDelta(c)
    \/ \E c \in OneCall : AudioDone(c)
    \/ \E c \in OneCall, id \in RespIds : ResponseCreated(c, id)
    \/ \E c \in OneCall : ResponseDone(c)
    \/ \E c \in OneCall, closeAt \in CloseAts : SpeechStarted(c, closeAt)

SpecBarge == Init /\ [][NextBarge]_vars

\* the end of a call: the caller hangs up or is cut off, the model's server may
\* end the connection, and the tasks run whenever they can
NextHangup ==
    \/ \E c \in Calls : TwilioStart(c) /\ UNCHANGED <<pool, calc, wire>>
    \/ \E c \in Calls : Hangup(c) /\ UNCHANGED <<pool, calc, wire>>
    \/ \E c \in Calls, raised \in BOOLEAN : Disconnect(c, raised)
    \/ \E c \in Calls : ServerClose(c)
    \/ \E c \in Calls :
          VerifyExistingPatient(c, <<"r","a","y">>, RayDob, FALSE, "call_a", "none")
          /\ UNCHANGED <<pool, calc, wire>>
    \/ \E c \in Calls : OpenAIReceiveEnds(c)
    \/ \E c \in Calls : KeepAlive(c)
    \/ \E c \in Calls : Cleanup(c)

\* the event loop runs every task that is ready
SpecHangup ==
    /\ Init /\ [][NextHangup]_vars
    /\ \A c \in Calls : /\ WF_vars(OpenAIReceiveEnds(c))
                        /\ WF_vars(KeepAlive(c))
                        /\ WF_vars(Cleanup(c))

\* tool calls made one after another in one call, with the pool they draw on
NextPool ==
    \/ \E c \in OneCall : TwilioStart(c) /\ UNCHANGED <<pool, calc, wire>>
    \/ \E c \in OneCall, fail \in BOOLEAN :
          /\ VerifyExistingPatient(c, <<"r","a","y">>, RayDob, fail, "call_a", "none")
          /\ Scoped(last'.touched # {}, fail)
    \/ \E c \in OneCall, fn \in NewFirstArgs, fail \in BOOLEAN :
          /\ CreateNewPatient(c, fn, <<"r","a","y">>, Dob("Dth Month YYYY", 1, 2, 1990),
                              PhoneB, fail, "call_a", "none")
          /\ Raw(last'.touched # {}, fail)
    \/ \E c \in OneCall, fail \in BOOLEAN :
          /\ CheckSlotAvailability(c, DateP("words", {"tomorrow"}, 0),
                                   TimeP("12h", 3, 0, "pm"), Emily, fail,
                                   "call_a", "none")
          /\ Scoped(last'.touched # {}, fail)
    \/ \E c \in OneCall, fail \in BOOLEAN :
          /\ BookAppointment(c, DateP("words", {"tomorrow"}, 0),
                             TimeP("12h", 3, 0, "pm"), DrCarter, fail,
                             "call_a", "none")
          /\ Raw(last'.touched # {}, fail)
    \/ \E c \in OneCall, fail \in BOOLEAN :
          /\ GetMyAppointments(c, fail, "call_a", "none")
          /\ Scoped(last'.touched # {}, fail)
    \/ \E c \in OneCall, fn \in EnquiryTools, fail \in BOOLEAN :
          /\ Enquiry(c, fn, fail, "call_a", "none")
          /\ Raw(last'.touched # {}, fail)
    \/ \E gf, cf, br, mf \in BOOLEAN : DbCursorScope(gf, cf, br, mf)

SpecPool == Init /\ [][NextPool]_vars

\* complaints: two calls, the first verifying as Ray and the others as Lee
NextComplaint ==
    \/ \E c \in Calls : TwilioStart(c) /\ UNCHANGED <<pool, calc, wire>>
    \/ \E c \in {1} :
          VerifyExistingPatient(c, <<"r","a","y">>, RayDob, FALSE, "call_a", "none")
          /\ UNCHANGED <<pool, calc, wire>>
    \/ \E c \in Calls \ {1} :
          VerifyWithContactNumber(c, <<" ","L","E","E">>,
                                  Dob("D/M/YYYY", 12, 12, 2006), PhoneB, FALSE,
                                  "call_a", "none") /\ UNCHANGED <<pool, calc, wire>>
    \/ \E c \in {1} :
          BookAppointment(c, DateP("words", {"tomorrow"}, 0),
                          TimeP("12h", 3, 0, "pm"), DrCarter, FALSE, "call_a", "none")
          /\ UNCHANGED <<pool, calc, wire>>
    \/ \E c \in Calls, cat \in CategoryArgs, text \in {<<>>, <<" ">>, <<"x">>},
          fn \in {<<>>, <<"a","n","n">>}, ln \in {<<>>, <<"l","e","e">>},
          ph \in {<<>>, PhoneA}, id \in {0, 1, MaxAppts + 1}, fail \in BOOLEAN :
          FileComplaint(c, cat, text, fn, ln, ph, id, fail, "call_b", "none")
          /\ UNCHANGED <<pool, calc, wire>>

SpecComplaint == Init /\ [][NextComplaint]_vars

\* supplier calls: two calls, checks of the company and order updates
NextSupplier ==
    \/ \E c \in Calls : TwilioStart(c) /\ UNCHANGED <<pool, calc, wire>>
    \/ \E c \in Calls, company \in CompanyArgs, id \in CallIds :
          CheckKnownSupplier(c, company, id, "none") /\ UNCHANGED <<pool, calc, wire>>
    \/ \E c \in Calls, pid \in {0, 1, 2}, name \in OrderNameArgs,
          product \in ProductArgs, fail \in BOOLEAN, id \in CallIds :
          UpdateSupplierOrder(c, pid, name, product, fail, id, "none")
          /\ UNCHANGED <<pool, calc, wire>>

SpecSupplier == Init /\ [][NextSupplier]_vars

\* the staff portal next to one call that books and files a complaint
NextPortal ==
    \/ \E c \in OneCall : TwilioStart(c) /\ UNCHANGED <<pool, calc, wire>>
    \/ \E c \in OneCall :
          VerifyExistingPatient(c, <<"r","a","y">>, RayDob, FALSE, "call_a", "none")
          /\ UNCHANGED <<pool, calc, wire>>
    \/ \E c \in OneCall :
          BookAppointment(c, DateP("words", {"tomorrow"}, 0),
                          TimeP("12h", 3, 0, "pm"), DrCarter, FALSE, "call_a", "none")
          /\ UNCHANGED <<pool, calc, wire>>
    \/ \E c \in OneCall :
          FileComplaint(c, TreatmentWord, <<"x">>, <<>>, <<>>, <<>>, 0, FALSE,
                        "call_b", "none") /\ UNCHANGED <<pool, calc, wire>>
    \/ \E method \in {"GET", "POST"}, username \in UsernameArgs,
          password \in PasswordArgs :
          login(method, username, password) /\ UNCHANGED <<pool, calc, wire>>
    \/ logout /\ UNCHANGED <<pool, calc, wire>>
    \/ index /\ UNCHANGED <<pool, calc, wire>>
    \/ \E route \in DataPages : DataPage(route) /\ UNCHANGED <<pool, calc, wire>>
    \/ \E id \in {0, 1}, st \in {"", "completed"}, fail \in BOOLEAN :
          update_appointment_status(id, st, fail) /\ UNCHANGED <<pool, calc, wire>>
    \/ \E id \in {0, 1}, st \in ComplaintStatuses, fail \in BOOLEAN :
          update_complaint_status(id, st, fail) /\ UNCHANGED <<pool, calc, wire>>
    \/ \E id \in {0, 1}, st \in OrderStatuses, fail \in BOOLEAN :
          update_order_status(id, st, fail) /\ UNCHANGED <<pool, calc, wire>>

SpecPortal == Init /\ [][NextPortal]_vars

\* normalize_phone on its own
NextPhone == \E phone \in PhoneInputs : NormalizePhone(phone)

SpecPhone == Init /\ [][NextPhone]_vars

\* the date and time parsers on their own, on each day of a week
NextParse ==
    \/ Midnight
    \/ \E p \in DatePhrases : ParseDate(p)
    \/ \E p \in TimePhrases : ParseTime(p)

SpecParse == Init /\ [][NextParse]_vars

\* the latest answer told call c that exactly this slot is free
JustToldAvailable(c, d, t, n) ==
    /\ last.call = c
    /\ last.fn = "check_slot_availability"
    /\ last.status = "AVAILABLE"
    /\ last.slot = Slot(n, parse_date_str(d, today), parse_time_str(t))

\* one call whose tool calls run one after another and which books a slot only
\* right after it was told the slot is free; it may then move its appointments
NextMove ==
    \/ \E c \in OneCall : TwilioStart(c) /\ UNCHANGED <<pool, calc, wire>>
    \/ \E c \in OneCall :
          VerifyExistingPatient(c, <<"r","a","y">>, RayDob, FALSE, "call_a", "none")
          /\ UNCHANGED <<pool, calc, wire>>
    \/ \E c \in OneCall, d \in MoveDates, fail \in BOOLEAN :
          CheckSlotAvailability(c, d, TimeP("12h", 3, 0, "pm"), DrCarter, fail,
                                "call_a", "none") /\ UNCHANGED <<pool, calc, wire>>
    \/ \E c \in OneCall, d \in MoveDates, fail \in BOOLEAN :
          /\ JustToldAvailable(c, d, TimeP("12h", 3, 0, "pm"), DrCarter)
          /\ BookAppointment(c, d, TimeP("12h", 3, 0, "pm"), DrCarter, fail,
                             "call_b", "none")
          /\ UNCHANGED <<pool, calc, wire>>
    \/ \E c \in OneCall, fail \in BOOLEAN :
          GetMyAppointments(c, fail, "call_a", "none") /\ UNCHANGED <<pool, calc, wire>>
    \/ \E c \in OneCall, i \in 1..MaxAppts, d \in MoveDates, fail \in BOOLEAN :
          UpdateMyAppointment(c, i, [NoFields EXCEPT !.preferred_date = d],
                              FALSE, fail, "call_b", "none")
          /\ UNCHANGED <<pool, calc, wire>>
    \/ \E c \in OneCall, i \in 1..MaxAppts, fail \in BOOLEAN :
          CancelMyAppointment(c, i, FALSE, fail, "call_b", "none")
          /\ UNCHANGED <<pool, calc, wire>>

SpecMove == Init /\ [][NextMove]_vars

\* the start of a call: Twilio's start event, the session configuration, the
\* keep-alive rounds and the server's session.updated answers, while the caller
\* may hang up and the server may end the connection
NextGreet ==
    \/ \E c \in OneCall : TwilioStart(c) /\ UNCHANGED <<pool, calc, wire>>
    \/ \E c \in OneCall : SendSessionConfig(c)
    \/ \E c \in OneCall, closeAt \in CloseAts : SessionUpdated(c, closeAt)
    \/ \E c \in OneCall : KeepAlive(c)
    \/ \E c \in OneCall : Hangup(c) /\ UNCHANGED <<pool, calc, wire>>
    \/ \E c \in OneCall : ServerClose(c)
    \/ \E c \in OneCall : OpenAIReceiveEnds(c)

\* the event loop runs every task that is ready, and the server answers every
\* session.update it was sent
SpecGreet ==
    /\ Init /\ [][NextGreet]_vars
    /\ \A c \in OneCall :
          /\ WF_vars(SendSessionConfig(c))
          /\ WF_vars(KeepAlive(c))
          /\ WF_vars(\E closeAt \in CloseAts : SessionUpdated(c, closeAt))

\* the order in which the model's server sends the events of its responses:
\* one response at a time, its output items one after another, the deltas of
\* an item between its output_item.added and its audio.done
ServerSends(c, type, id) ==
    LET w == wire[c]
    IN  CASE type = "response.created" -> w.resp = ""
          [] type = "response.output_item.added" ->
                w.resp # "" /\ w.audio # "streaming" /\ id # w.item
          [] type = "response.audio.delta" ->
                w.resp # "" /\ w.item # "" /\ w.audio # "done"
          [] type = "response.audio.done" -> w.audio = "streaming"
          [] type = "response.done" -> w.resp # "" /\ w.audio # "streaming"

\* one call in which the server streams responses and the caller may speak at
\* any moment
NextStream ==
    \/ \E c \in OneCall : TwilioStart(c) /\ UNCHANGED <<pool, calc, wire>>
    \/ Tick
    \/ \E c \in OneCall, id \in RespIds :
          ServerSends(c, "response.created", id) /\ ResponseCreated(c, id)
    \/ \E c \in OneCall, id \in ItemIds :
          ServerSends(c, "response.output_item.added", id) /\ OutputItemAdded(c, id)
    \/ \E c \in OneCall :
          ServerSends(c, "response.audio.delta", "") /\ AudioDelta(c)
    \/ \E c \in OneCall :
          ServerSends(c, "response.audio.done", "") /\ AudioDone(c)
    \/ \E c \in OneCall :
          ServerSends(c, "response.done", "") /\ ResponseDone(c)
    \/ \E c \in OneCall, closeAt \in CloseAts : SpeechStarted(c, closeAt)

SpecStream == Init /\ [][NextStream]_vars

\* what the caller says to the verification flow: the answers to the question
\* of the step she is at, and a sentence that answers nothing
Um == Sentence({}, <<"u","m">>, Dob("words", 0, 0, 0))
VerificationAnswers(step) ==
    CASE step \in {"existing_ask_lastname", "new_ask_firstname", "new_ask_lastname"} ->
            {Sentence({}, <<"r","a","y">>, Dob("words", 0, 0, 0)),
             Sentence({}, <<" ","L","E","E">>, Dob("words", 0, 0, 0))}
      [] step \in {"existing_ask_dob", "new_ask_dob"} ->
            {Sentence({}, <<"1","s","t">>, Dob("Dth Month YYYY", 1, 2, 1990)),
             Sentence({}, <<"1","2","/","1","2">>, Dob("D/M/YYYY", 12, 12, 2006)),
             Um}
      [] step \in {"existing_disambiguate_contact", "new_ask_contact"} ->
            {Sentence({}, PhoneB, Dob("words", 0, 0, 0)), Um}
      [] step \in {"existing_confirm_contact", "new_confirm_contact",
                   "new_ask_insurance"} ->
            {Sentence({"yes"}, <<"y","e","s">>, Dob("words", 0, 0, 0)),
             Sentence({"no"}, <<"n","o">>, Dob("words", 0, 0, 0)), Um}
      [] OTHER ->
            {Sentence({"existing"}, <<"o","l","d">>, Dob("words", 0, 0, 0)),
             Sentence({"new"}, <<"n","e","w">>, Dob("words", 0, 0, 0)),
             Sentence({"new", "existing"}, <<"n","e","w">>, Dob("words", 0, 0, 0)),
             Um}

\* what the caller says to the booking flow
ThreePm == TimeP("12h", 3, 0, "pm")
BookingWishes ==
    {Wish({"trigger"}, "", NoDate, NoTime, <<>>),
     Wish({}, "Cleaning", NoDate, NoTime, <<>>),
     Wish({}, "", DateP("words", {"tomorrow"}, 0), ThreePm, <<>>),
     Wish({}, "", DateP("words", {"tomorrow"}, 0), NoTime, <<>>),
     Wish({}, "", DateP("words", {}, 0), ThreePm, <<>>),
     Wish({}, "", NoDate, ThreePm, <<>>),
     Wish({}, "", NoDate, NoTime, AnyDentist),
     Wish({}, "", NoDate, NoTime, DrCarter),
     Wish({"yes"}, "", NoDate, NoTime, <<>>),
     Wish({"no"}, "", NoDate, NoTime, <<>>),
     Wish({"cancel", "no"}, "", NoDate, NoTime, <<>>)}

\* one call that is taken through the verification flow until the caller is
\* verified and through the booking flow from then on, while appointments for
\* tomorrow at three are booked with the tool, one dentist after the other
NextFlow ==
    \/ \E c \in OneCall : TwilioStart(c) /\ UNCHANGED <<pool, calc, wire>>
    \/ \E c \in OneCall, fail \in BOOLEAN :
          /\ ~session[c].verified
          /\ \E u \in VerificationAnswers(session[c].flow.verification_step) :
                HandleVerification(c, u, fail)
          /\ UNCHANGED <<pool, calc, wire>>
    \/ \E c \in OneCall, u \in BookingWishes, fail \in BOOLEAN :
          /\ session[c].verified
          /\ HandleBooking(c, u, fail)
          /\ UNCHANGED <<pool, calc, wire>>
    \/ \E c \in OneCall, i \in DOMAIN DENTISTS :
          /\ i = Len(appointments) + 1
          /\ BookAppointment(c, DateP("words", {"tomorrow"}, 0), ThreePm,
                             DENTISTS[i], FALSE, "call_a", "none")
          /\ UNCHANGED <<pool, calc, wire>>

SpecFlow == Init /\ [][NextFlow]_vars

(***************************************************************************)
(* Properties of booking, availability and cancellation.                   *)
(***************************************************************************)

\* the confirmed rows of A that hold exactly this dentist, date and time
ConfirmedIn(A, dentist, date, time) ==
    {i \in DOMAIN A : /\ A[i].dentist = dentist /\ A[i].date = date
                      /\ A[i].time = time /\ A[i].status = "confirmed"}

\* C1: a book_appointment tool call for a dentist, date and time that a
\* confirmed appointment already occupies is answered UNAVAILABLE or
\* NOT_AVAILABLE and adds no appointment row.
C1_OccupiedSlotRejected ==
    [][last'.fn = "book_appointment" =>
       \A c \in OneCall, d \in DateArgs, t \in TimeArgs, n \in DentistArgs :
          ( /\ ConfirmedIn(appointments, n, parse_date_str(d, today),
                           parse_time_str(t)) # {}
            /\ BookAppointment(c, d, t, n, FALSE, "call_a", "none") )
          => /\ last'.status \in {"UNAVAILABLE", "NOT_AVAILABLE"}
             /\ appointments' = appointments]_vars

\* what the code does instead: the second booking of the slot is BOOKED and the
\* slot holds two confirmed rows
C1_DoubleBooked ==
    /\ last.fn = "book_appointment" /\ last.status = "BOOKED"
    /\ Cardinality(ConfirmedIn(appointments, last.slot.dentist, last.slot.date,
                               last.slot.time)) >= 2

\* the slot the call was last told is AVAILABLE is the one (d, t, n) names
ToldAvailable(c, d, t, n) ==
    /\ avail[c] # NoSlot
    /\ avail[c].date = parse_date_str(d, today)
    /\ avail[c].time = parse_time_str(t)
    /\ Contains(Lower(n), Lower(avail[c].dentist))

\* C2: nothing but the COUNT(*) of the availability check stands between two
\* calls and the same slot: a verified call that was told AVAILABLE and then
\* books the slot is answered BOOKED and gets its confirmed row whenever the
\* INSERT goes through, whatever rows the other call has added in between.
C2_NothingPreventsBooking ==
    [][last'.fn = "book_appointment" =>
       \A c \in Calls, d \in DateArgs, t \in TimeArgs, n \in DentistArgs :
          ( /\ session[c].exists /\ session[c].verified
            /\ ToldAvailable(c, d, t, n)
            /\ BookAppointment(c, d, t, n, FALSE, "call_b", "none") )
          => /\ last'.status = "BOOKED"
             /\ appointments' = Append(appointments,
                    [patient_id |-> session[c].patient_data.patient_id,
                     date |-> parse_date_str(d, today),
                     time |-> parse_time_str(t),
                     dentist |-> n, status |-> "confirmed"])]_vars

\* two calls were both told AVAILABLE for a slot and each then booked it: the
\* slot holds a confirmed row of either caller
C2_BothBooked ==
    \E i, j \in DOMAIN appointments :
        /\ i # j
        /\ j \in ConfirmedIn(appointments, appointments[i].dentist,
                             appointments[i].date, appointments[i].time)
        /\ appointments[i].status = "confirmed"
        /\ session[1].verified /\ session[2].verified
        /\ appointments[i].patient_id = session[1].patient_data.patient_id
        /\ appointments[j].patient_id = session[2].patient_data.patient_id
        /\ appointments[i].patient_id # appointments[j].patient_id
        /\ \A c \in {1, 2} :
              /\ avail[c] # NoSlot
              /\ avail[c].date = appointments[i].date
              /\ avail[c].time = appointments[i].time
              /\ Contains(Lower(appointments[i].dentist), Lower(avail[c].dentist))
        /\ last.status = "BOOKED"

\* row i of A holds what a booking of (d, t, n) stores
Holds(A, i, d, t, n) ==
    /\ A[i].date = parse_date_str(d, today)
    /\ A[i].time = parse_time_str(t)
    /\ A[i].dentist = n

\* C3 as stated: once an appointment holds a dentist, date and time, an
\* availability check for them answers NOT_AVAILABLE for as long as that
\* appointment has not been cancelled.
C3_UnavailableUntilCancelled ==
    [][\A i \in DOMAIN appointments, d \in DateArgs, t \in TimeArgs,
          n \in DentistArgs :
          ( /\ Holds(appointments, i, d, t, n)
            /\ appointments[i].status # "cancelled"
            /\ appointments'[i].status # "cancelled" )
          => check_dentist_availability(appointments', d, t, n, today, FALSE).status
                = "NOT_AVAILABLE"]_vars

\* C3: an availability check tool call for a dentist, date and time that an
\* appointment holds now (booked there or moved there, and not cancelled) is
\* answered NOT_AVAILABLE when the query goes through and ERROR when it fails.
C3_UnavailableWhileHeld ==
    [][last'.fn = "check_slot_availability" =>
       \A c \in OneCall, d \in DateArgs, t \in TimeArgs, n \in DentistArgs,
          fail \in BOOLEAN :
          ( /\ \E i \in DOMAIN appointments :
                  /\ Holds(appointments, i, d, t, n)
                  /\ appointments[i].status # "cancelled"
            /\ CheckSlotAvailability(c, d, t, n, fail, "call_a", "none") )
          => last'.status = IF fail THEN "ERROR" ELSE "NOT_AVAILABLE"]_vars

\* a check was answered NOT_AVAILABLE for a slot that a booked appointment
\* which is no longer confirmed, and not cancelled, still holds
C3_CheckedHeldSlot ==
    /\ last.fn = "check_slot_availability" /\ last.status = "NOT_AVAILABLE"
    /\ \E i \in DOMAIN appointments :
          /\ appointments[i].status \notin {"cancelled", "confirmed"}
          /\ appointments[i].date = last.slot.date
          /\ appointments[i].time = last.slot.time

\* C4: cancel_appointment called with an id that no appointment row has returns
\* a dictionary whose status is ERROR (or NOT_FOUND), raises nothing and
\* leaves every appointment row as it was.
C4_CancelUnknownId ==
    [][last'.fn = "cancel_appointment" =>
       \A id \in 0..(MaxAppts + 1), fail \in BOOLEAN :
          (id \notin DOMAIN appointments /\ CancelById(id, fail))
          => /\ last'.status \in {"ERROR", "NOT_FOUND"}
             /\ appointments' = appointments]_vars

\* the executor has said "Appointment not found." with rows in the table
C4_NotFoundAnswered ==
    /\ last.fn = "cancel_appointment" /\ last.status = "ERROR"
    /\ last.message = "Appointment not found."
    /\ appointments # <<>>
    /\ \E i \in DOMAIN appointments : appointments[i].status # "cancelled"

(***************************************************************************)
(* Properties of the call bridge and of verification.                      *)
(***************************************************************************)

\* the two messages of an answer: the output for the call id, then response.create
BothSent(l) ==
    << Msg("function_call_output", l.call_id, l.status),
       Msg("response.create", "", "") >>

\* C5 as stated: every tool call is answered with exactly one
\* function_call_output carrying its call id, then exactly one response.create.
C5_OutputThenCreate ==
    last.call # 0 => last.sent = BothSent(last)

\* C5: a tool call whose model socket is still open after the answer was sent
\* exactly one function_call_output carrying its call id and then exactly one
\* response.create, whatever the executor returned or raised; on a socket closed
\* in between, the messages from the close on are skipped and nothing else is sent.
C5_OutputThenCreateWhileOpen ==
    last.call # 0 =>
        /\ ws[last.call] = "open" => last.sent = BothSent(last)
        /\ last.sent \in {<<>>, SubSeq(BothSent(last), 1, 1), BothSent(last)}

\* an executor that failed on the database was answered in full
C5_ErrorAnswered ==
    /\ last.call # 0 /\ ws[last.call] = "open"
    /\ last.status = "ERROR" /\ last.touched # {}
    /\ last.sent = BothSent(last)

\* C6: a book_appointment tool call that answers anything but BOOKED leaves the
\* appointment rows exactly as they were.
C6_FailedBookingAddsNothing ==
    [][last'.fn = "book_appointment" =>
       \A c \in OneCall, d \in DateArgs, t \in TimeArgs, n \in DentistArgs,
          fail \in BOOLEAN :
          (BookAppointment(c, d, t, n, fail, "call_a", "none")
              /\ last'.status # "BOOKED")
          => appointments' = appointments]_vars

\* a verified caller's booking failed in the executor with rows in the table
C6_FailedBooking ==
    /\ last.fn = "book_appointment" /\ last.status = "ERROR"
    /\ last.touched = {"appointments"}
    /\ session[1].verified
    /\ appointments # <<>>

GatedTools ==
    {"book_appointment", "get_my_appointments", "update_my_appointment",
     "cancel_my_appointment"} \cup EnquiryTools

\* call c makes one of the tool calls that need a verified patient
GatedCall(c) ==
    \E fail \in BOOLEAN, cid \in CallIds, closeAt \in CloseAts :
        \/ \E d \in DateArgs, t \in TimeArgs, n \in DentistArgs :
              BookAppointment(c, d, t, n, fail, cid, closeAt)
        \/ GetMyAppointments(c, fail, cid, closeAt)
        \/ \E i \in 0..(MaxAppts + 1), f \in FieldArgs, failGet \in BOOLEAN :
              UpdateMyAppointment(c, i, f, failGet, fail, cid, closeAt)
        \/ \E i \in 0..(MaxAppts + 1), failGet \in BOOLEAN :
              CancelMyAppointment(c, i, failGet, fail, cid, closeAt)
        \/ \E fn \in EnquiryTools : Enquiry(c, fn, fail, cid, closeAt)

\* C7: while the call is not verified, each of the seven tools that need a
\* verified patient answers ERROR without a statement sent to any table and
\* without a change to the patient, appointment or order rows.
C7_UnverifiedToolsRefused ==
    [][\A c \in OneCall :
          ( /\ ~(session[c].exists /\ session[c].verified)
            /\ last'.fn \in GatedTools
            /\ GatedCall(c) )
          => /\ last'.status = "ERROR"
             /\ last'.touched = {}
             /\ UNCHANGED <<patients, appointments, orders, session>>]_vars

\* an unverified call with a session asked for its appointments and was refused
C7_RefusedUnverified ==
    /\ last.call # 0 /\ last.fn \in GatedTools
    /\ session[last.call].exists /\ ~session[last.call].verified
    /\ last.status = "ERROR" /\ last.touched = {}

VerifyTools ==
    {"verify_existing_patient", "verify_with_contact_number", "create_new_patient"}

\* C8: a verified call stays verified (also after it has ended), a verified
\* session holds a patient record whose patient_id is a row of the patients
\* table, and a verification or creation that fails leaves the session as it was.
C8_VerifiedIsSticky ==
    /\ [](\A c \in Calls :
             session[c].verified =>
                /\ session[c].exists
                /\ session[c].patient_data.patient_id \in DOMAIN patients)
    /\ [][\A c \in Calls :
             session[c].verified =>
                /\ session'[c].verified
                /\ ( /\ last'.call = c /\ last'.fn \in VerifyTools
                     /\ last'.status \notin {"VERIFIED", "CREATED"} )
                   => session'[c] = session[c]]_vars

\* a verified call was answered NOT_FOUND, MULTIPLE_FOUND or ERROR by a later
\* verification or creation and is still verified
C8_FailedAfterVerified ==
    /\ last.call # 0 /\ last.fn \in VerifyTools
    /\ last.status \in {"NOT_FOUND", "MULTIPLE_FOUND", "ERROR"}
    /\ session[last.call].verified
    /\ session[last.call].patient_data.patient_id \in DOMAIN patients

\* the same day, however the phrase writes it
SameDay(p, q) == p.form # "" /\ p.d = q.d /\ p.m = q.m /\ p.y = q.y

\* how many patient rows have this last name (whatever the case, blanks around
\* it set aside) and this date of birth
MatchCount(P, last_name, dob) ==
    Cardinality({i \in DOMAIN P :
                    /\ Lower(P[i].last_name) = Lower(Strip(last_name))
                    /\ SameDay(dob, P[i].date_of_birth)})

\* what the claim says of the executor's status for n matching rows
StatusByCount(status, n) ==
    /\ status = "VERIFIED" <=> n = 1
    /\ status = "MULTIPLE_FOUND" <=> n > 1
    /\ status = "NOT_FOUND" <=> n = 0

\* C9 as stated: verify_by_lastname_dob returns VERIFIED exactly when one
\* patient row matches, MULTIPLE_FOUND exactly when several do, NOT_FOUND
\* exactly when none does; the tool marks the call verified only on VERIFIED.
C9_StatusByMatches ==
    [][last'.fn = "verify_existing_patient" =>
       \A c \in Calls, ln \in LastNameArgs, dob \in DobArgs, fail \in BOOLEAN :
          VerifyExistingPatient(c, ln, dob, fail, "call_a", "none") =>
             LET r == verify_by_lastname_dob(patients, ln, normalize_dob(dob), fail)
             IN  /\ StatusByCount(r.status, MatchCount(patients, ln, dob))
                 /\ r.status # "VERIFIED" => session'[c] = session[c]]_vars

\* C9: with a last name and a date of birth given and the lookup going through,
\* verify_by_lastname_dob returns VERIFIED exactly when one patient row
\* matches, MULTIPLE_FOUND exactly when several do, NOT_FOUND exactly when none
\* does; without one of the two it returns MISSING_INFO, on a failed lookup
\* ERROR; the tool changes the session only on VERIFIED.
C9_StatusByMatchesWhenAsked ==
    [][last'.fn = "verify_existing_patient" =>
       \A c \in Calls, ln \in LastNameArgs, dob \in DobArgs, fail \in BOOLEAN :
          VerifyExistingPatient(c, ln, dob, fail, "call_a", "none") =>
             LET r == verify_by_lastname_dob(patients, ln, normalize_dob(dob), fail)
             IN  /\ (ln = <<>> \/ dob = EmptyDob) => r.status = "MISSING_INFO"
                 /\ (ln # <<>> /\ dob # EmptyDob /\ fail) => r.status = "ERROR"
                 /\ (ln # <<>> /\ dob # EmptyDob /\ ~fail) =>
                        StatusByCount(r.status, MatchCount(patients, ln, dob))
                 /\ r.status # "VERIFIED" => session'[c] = session[c]]_vars

\* a call became verified by last name and date of birth: one row matched
C9_VerifiedOneMatch ==
    /\ last.call # 0 /\ last.fn = "verify_existing_patient"
    /\ last.status = "VERIFIED"
    /\ session[last.call].verified
    /\ \E ln \in LastNameArgs, dob \in DobArgs :
          /\ MatchCount(patients, ln, dob) = 1
          /\ \E ln2 \in LastNameArgs, dob2 \in DobArgs :
                MatchCount(patients, ln2, dob2) > 1

\* C10: when the lookup behind verify_existing_patient or
\* verify_with_contact_number fails with a database exception, the answer
\* carries the status ERROR, not NOT_FOUND or MULTIPLE_FOUND.
C10_LookupFailureIsError ==
    [][last'.fn \in {"verify_existing_patient", "verify_with_contact_number"} =>
       \A c \in Calls, ln \in LastNameArgs \ {<<>>}, dob \in DobArgs \ {EmptyDob},
          ph \in PhoneArgs :
          ( \/ VerifyExistingPatient(c, ln, dob, TRUE, "call_a", "none")
            \/ VerifyWithContactNumber(c, ln, dob, ph, TRUE, "call_a", "none") )
          => last'.status = "ERROR"]_vars

(***************************************************************************)
(* Properties of barge-in.                                                 *)
(***************************************************************************)

\* C11 as stated: speech_started that arrives while the session is speaking or
\* has an active response id makes the bridge send response.cancel and then the
\* truncation of the current assistant item at the elapsed playback offset.
C11_CancelAndTruncate ==
    [][last'.fn = "input_audio_buffer.speech_started" =>
       \A c \in OneCall :
          ( /\ session[c].exists
            /\ session[c].is_speaking \/ session[c].current_response_id # ""
            /\ SpeechStarted(c, "none") )
          => last'.sent =
                << Cancel,
                   Truncate(session[c].last_assistant_item_id,
                            Elapsed(session[c], clock)) >>]_vars

\* C11: speech_started that arrives while the session is speaking and has a
\* current assistant item, on a model socket that stays open, makes the bridge
\* send the truncation of that item at the elapsed playback offset, preceded by
\* response.cancel exactly when a response id is active; when the session is
\* not speaking or has no current item the bridge sends nothing.
C11_TruncateWhenSpeaking ==
    [][last'.fn = "input_audio_buffer.speech_started" =>
       \A c \in OneCall :
          SpeechStarted(c, "none") =>
             IF /\ session[c].exists /\ session[c].is_speaking
                /\ session[c].last_assistant_item_id # ""
             THEN /\ last'.sent[Len(last'.sent)] =
                        [type |-> "conversation.item.truncate",
                         item_id |-> session[c].last_assistant_item_id,
                         content_index |-> 0,
                         audio_end_ms |->
                            IF session[c].audio_start_time = NoStart THEN 0
                            ELSE clock - session[c].audio_start_time]
                  /\ IF session[c].current_response_id # ""
                     THEN /\ Len(last'.sent) = 2
                          /\ last'.sent[1] = [type |-> "response.cancel"]
                     ELSE Len(last'.sent) = 1
             ELSE last'.sent = <<>>]_vars

\* a barge-in after playback had run for a while cancelled and truncated
C11_CancelledAndTruncated ==
    /\ last.fn = "input_audio_buffer.speech_started"
    /\ ws[1] = "open"
    /\ Len(last.sent) = 2
    /\ last.sent[1].type = "response.cancel"
    /\ last.sent[2].type = "conversation.item.truncate"
    /\ last.sent[2].audio_end_ms > 0

\* C12: a barge-in leaves is_speaking false, the audio queue empty,
\* last_assistant_item_id and audio_start_time unset and elapsed_ms 0, and
\* verified, patient_data and fetched_appointments as they were.
C12_BargeInClearsPlayback ==
    [][last'.fn = "input_audio_buffer.speech_started" =>
       \A c \in OneCall, closeAt \in CloseAts :
          ( /\ session[c].exists /\ session[c].is_speaking
            /\ session[c].last_assistant_item_id # ""
            /\ SpeechStarted(c, closeAt) )
          => /\ session'[c].is_speaking = FALSE
             /\ session'[c].audio_queue = <<>>
             /\ session'[c].last_assistant_item_id = ""
             /\ session'[c].audio_start_time = NoStart
             /\ session'[c].elapsed_ms = 0
             /\ session'[c].verified = session[c].verified
             /\ session'[c].patient_data = session[c].patient_data
             /\ session'[c].fetched_appointments
                    = session[c].fetched_appointments]_vars

\* a verified caller with a fetched list barged in on the answer
C12_BargedInVerified ==
    /\ last.fn = "input_audio_buffer.speech_started"
    /\ last.sent # <<>>
    /\ session[1].verified
    /\ session[1].patient_data # NoPatient
    /\ session[1].fetched_appointments # <<>>
    /\ ~session[1].is_speaking

(***************************************************************************)
(* Properties of the end of a call.                                        *)
(***************************************************************************)

\* C13: once the caller has hung up (stop event or disconnect), the model
\* socket gets closed, the three tasks of the call finish and the handler
\* reaches its cleanup block.
C13_HangupEndsTheCall ==
    \A c \in Calls :
        (tasks[c].caller = "gone") ~>
            ( /\ ws[c] = "closed"
              /\ tasks[c].twilio = "done" /\ tasks[c].openai = "done"
              /\ tasks[c].keep_alive = "done"
              /\ tasks[c].handler = "done" )

(***************************************************************************)
(* Properties of the connection pool.                                      *)
(***************************************************************************)

\* C14: a db_cursor scope whose body ran called commit exactly when the body
\* raised nothing, rolled back and raised when the body raised, and in both
\* cases handed its connection back to the pool exactly once, leaving the
\* number of connections taken from the pool as it was.
C14_ScopeCommitsOrRollsBack ==
    [][(pool'.scope.kind = "db_cursor" /\ pool'.scope.body_ran) =>
          /\ (pool'.scope.commits = 1) <=> ~pool'.scope.body_raised
          /\ pool'.scope.commits \in {0, 1}
          /\ pool'.scope.body_raised =>
                (pool'.scope.rollbacks = 1 /\ pool'.scope.raised)
          /\ pool'.scope.putconns = 1
          /\ pool'.used = pool.used]_vars

\* a scope whose body raised after other connections had been taken
C14_BodyRaised ==
    /\ pool.scope.kind = "db_cursor"
    /\ pool.scope.body_raised /\ pool.scope.raised
    /\ pool.scope.putconns = 1
    /\ pool.used > 0

\* C15 as stated: after any sequence of completed tool calls no connection is
\* checked out of the pool (so one call after another never exhausts it).
C15_NoConnectionCheckedOut ==
    pool.used = 0

(***************************************************************************)
(* Properties of the appointment status.                                   *)
(***************************************************************************)

\* C16 as stated: every appointment row has status confirmed, cancelled or
\* completed.
C16_StatusOneOfThree ==
    \A i \in DOMAIN appointments :
        appointments[i].status \in {"confirmed", "cancelled", "completed"}

\* C16: after any sequence of bookings, updates and cancellations made through
\* calls and of status updates made with the status form of the portal's
\* appointments page, every appointment row has status confirmed, cancelled,
\* completed or pending.
C16_StatusOneOfFour ==
    \A i \in DOMAIN appointments :
        appointments[i].status \in {"confirmed", "cancelled", "completed", "pending"}

\* the caller cancelled one appointment and staff set the other to pending
C16_CancelledAndPending ==
    /\ Len(appointments) = 2
    /\ \E i \in DOMAIN appointments : appointments[i].status = "cancelled"
    /\ \E i \in DOMAIN appointments : appointments[i].status = "pending"
    /\ last.fn = "cancel_my_appointment" /\ last.status = "CANCELLED"

(***************************************************************************)
(* Properties of complaints.                                               *)
(***************************************************************************)

\* C17: a complaint row of category treatment is added by file_complaint only
\* in a call whose session is verified, and it carries the patient_id of that
\* session's patient; a call that is not verified adds general rows only.
C17_TreatmentComplaintNeedsVerified ==
    [][\A i \in DOMAIN complaints' \ DOMAIN complaints :
          /\ last'.fn = "file_complaint"
          /\ LET sess == session[last'.call]
             IN  IF sess.exists /\ sess.verified
                 THEN complaints'[i].category = "treatment" =>
                         /\ sess.patient_data.patient_id \in DOMAIN patients
                         /\ complaints'[i].patient_id
                                = sess.patient_data.patient_id
                 ELSE complaints'[i].category = "general"]_vars

\* both callers are verified and the second one's treatment complaint is on file
C17_TreatmentComplaintFiled ==
    /\ last.fn = "file_complaint" /\ last.status = "SAVED" /\ last.call = 2
    /\ session[1].verified /\ session[2].verified
    /\ session[1].patient_data.patient_id # session[2].patient_data.patient_id
    /\ complaints[Len(complaints)].category = "treatment"
    /\ complaints[Len(complaints)].patient_id = session[2].patient_data.patient_id

(***************************************************************************)
(* Properties of supplier calls.                                           *)
(***************************************************************************)

\* what a FOUND answer of check_known_supplier leaves in the session: the flag,
\* until a later check clears it, and the supplier's name for the rest of the
\* call
FoundInCall(sess) == sess.is_known_supplier \/ sess.company_name # <<>>

\* C18: update_supplier_order changes an order's status to ready only in a
\* call in which check_known_supplier has answered FOUND before.
C18_ReadyOnlyAfterFound ==
    [][last'.fn = "update_supplier_order" /\ orders' # orders
          => FoundInCall(session[last'.call])]_vars

\* the keys under which the tables' internal identifiers travel
InternalIds ==
    {"patient_id", "appointment_id", "order_id", "complaint_id", "log_id"}

\* C19: no function_call_output payload, of any tool and any outcome, holds an
\* internal identifier.
C19_NoInternalIdInPayload ==
    (\E i \in DOMAIN last.sent : last.sent[i].type = "function_call_output")
        => last.keys \cap InternalIds = {}

(***************************************************************************)
(* Properties of the staff portal.                                         *)
(***************************************************************************)

\* C20: a request to a data page or a status-update route made while the
\* browser session is not logged in is answered with a redirect to the login
\* page, reaches no table and changes no row; and the session becomes logged
\* in only by a login POST whose username and password, as the form reads them
\* (stripped), are the configured ones.
C20_PortalNeedsLogin ==
    [][/\ (/\ portal' # portal
           /\ portal'.route \in DataPages \cup StatusRoutes
           /\ ~portal.logged_in)
          => /\ portal'.response = "redirect:login"
             /\ portal'.touched = {}
             /\ UNCHANGED <<patients, appointments, orders, complaints>>
       /\ (~portal.logged_in /\ portal'.logged_in)
          => /\ portal'.route = "login"
             /\ portal'.method = "POST"
             /\ Strip(portal'.username) = PORTAL_USERNAME
             /\ Strip(portal'.password) = PORTAL_PASSWORD]_vars

\* a status update for an appointment on file was posted without a login and
\* sent to the login page
C20_UpdateRedirected ==
    /\ ~portal.logged_in
    /\ portal.route = "appointments/update-status"
    /\ portal.response = "redirect:login"
    /\ appointments # <<>>

(***************************************************************************)
(* Properties of the phone, date and time functions.                       *)
(***************************************************************************)

\* C21: for every text, normalize_phone gives at most 10 characters, all of
\* them digits, and normalize_phone of that result is the result itself.
C21_PhoneIsCappedDigits ==
    calc.fn = "normalize_phone" =>
        /\ Len(calc.out) <= 10
        /\ \A i \in DOMAIN calc.out : calc.out[i] \in Digits
        /\ normalize_phone(calc.out) = calc.out

\* a text with more than ten digits and other characters among them
C21_LongPhoneCut ==
    /\ calc.fn = "normalize_phone"
    /\ Len(OnlyDigits(calc.arg)) > 10
    /\ \E i \in DOMAIN calc.arg : calc.arg[i] \notin Digits
    /\ Len(calc.out) = 10

\* C22: a date phrase the parser recognises comes back as a YYYY-MM-DD
\* calendar date and a time phrase as an HH:MM time of day with hour 00-23 and
\* minute 00-59; a phrase it does not recognise comes back exactly as given.
C22_CanonicalOrAsGiven ==
    /\ (calc.fn = "parse_time_str" /\ calc.arg.form # "") =>
          \/ calc.out = calc.arg
          \/ /\ calc.out.form = "HH:MM"
             /\ calc.out.h \in 0..23
             /\ calc.out.m \in 0..59
    /\ (calc.fn = "parse_date_str" /\ calc.arg.phrase.form # "") =>
          \/ calc.out = calc.arg.phrase
          \/ calc.out.form = "YYYY-MM-DD" /\ calc.out.ord >= 1

\* the weekdays a phrase names, Monday being 0
Named(p) == {k \in 0..6 : day_map[k + 1] \in p.keys}

\* the next date strictly after day t that falls on weekday k
NextOn(t, k) == t + (IF (k - weekday(t)) % 7 = 0 THEN 7 ELSE (k - weekday(t)) % 7)

\* C23 as stated: every phrase naming a weekday gives the next date strictly
\* after today on that weekday, and "3pm" gives "15:00".
C23_NextWeekday ==
    /\ (calc.fn = "parse_date_str" /\ Named(calc.arg.phrase) # {}) =>
          \E k \in Named(calc.arg.phrase) :
              calc.out = IsoDate(NextOn(calc.arg.today, k))
    /\ (calc.fn = "parse_time_str" /\ calc.arg = TimeP("12h", 3, 0, "pm")) =>
          calc.out = HHMM(15, 0)

\* C23, amended: a phrase naming a weekday and holding neither "today" nor
\* "tomorrow" gives the next date strictly after today on that weekday, and
\* "3pm" gives "15:00".
C23_NextWeekdayUnlessTodayOrTomorrow ==
    /\ (/\ calc.fn = "parse_date_str"
        /\ Named(calc.arg.phrase) # {}
        /\ calc.arg.phrase.keys \cap {"today", "tomorrow"} = {}) =>
          \E k \in Named(calc.arg.phrase) :
              calc.out = IsoDate(NextOn(calc.arg.today, k))
    /\ (calc.fn = "parse_time_str" /\ calc.arg = TimeP("12h", 3, 0, "pm")) =>
          calc.out = HHMM(15, 0)

\* "thursday" parsed on a Monday gave the date three days later
C23_ThursdayOnMonday ==
    /\ calc.fn = "parse_date_str"
    /\ weekday(calc.arg.today) = 0
    /\ calc.arg.phrase.keys = {"thursday"}
    /\ calc.out = IsoDate(calc.arg.today + 3)

(***************************************************************************)
(* Properties of a call's own appointments.                                *)
(***************************************************************************)

\* C24: whatever tool calls a call makes, repeated verifications included,
\* update_my_appointment and cancel_my_appointment change only appointments
\* whose patient_id is that of the patient in the session's patient_data.
C24_OnlyOwnAppointments ==
    [][(last' # last
        /\ last'.fn \in {"update_my_appointment", "cancel_my_appointment"}) =>
          \A i \in DOMAIN appointments :
              appointments'[i] # appointments[i] =>
                  appointments[i].patient_id
                      = session[last'.call].patient_data.patient_id]_vars

C26_CancelOnlyActiveResponse ==
    [][\A c \in Calls :
          (/\ last' # last
           /\ last'.call = c
           /\ \E i \in DOMAIN last'.sent : last'.sent[i] = Cancel) =>
              /\ wire[c].resp # ""
              /\ session[c].current_response_id = wire[c].resp]_vars

\* a barge-in cancelled the active response and truncated its second item
C26_CancelledWhileActive ==
    \E c \in Calls :
        /\ last.call = c
        /\ last.fn = "input_audio_buffer.speech_started"
        /\ Len(last.sent) = 2 /\ last.sent[1] = Cancel
        /\ wire[c].resp # ""
        /\ wire[c].item = "item_2"

\* C27: the [CALL_STARTED] greeting request is sent to the model at most once
\* per call, however many session.updated events arrive, those answering the
\* keep-alive session.update messages included: a step that sends it is taken
\* only in a call in which it has not been sent before.
C27_GreetingAtMostOnce ==
    [][\A c \in Calls :
          (/\ wire' # wire
           /\ last'.call = c
           /\ last'.fn = "session.updated"
           /\ \E i \in DOMAIN last'.sent : last'.sent[i] = CallStarted) =>
              ~wire[c].greeted]_vars

\* the greeting was sent, and a later session.updated, the answer to a
\* keep-alive round, arrived and sent nothing
C27_UpdatedAfterGreeting ==
    \E c \in Calls :
        /\ wire[c].greeted
        /\ session[c].greeting_sent
        /\ tasks[c].beat = 1
        /\ last.call = c
        /\ last.fn = "session.updated"
        /\ last.sent = <<>>

\* C28: once Twilio's start event has arrived and the model socket stays open,
\* the [CALL_STARTED] greeting is eventually requested, also when start arrives
\* only after the session_ready timeout has let the session configuration go
\* out with no session created yet.
C28_GreetingEventuallyRequested ==
    \A c \in Calls :
        session[c].exists ~> (wire[c].greeted \/ ws[c] = "closed")

\* the configuration went out on the timeout, start arrived later, and the
\* greeting was requested on the answer to a keep-alive round
C28_GreetedAfterTimeout ==
    \E c \in Calls :
        /\ wire[c].config = "sent_on_timeout"
        /\ session[c].exists
        /\ wire[c].greeted
        /\ ws[c] = "open"

\* C29: after a barge-in has been handled, no further audio delta of the item
\* it interrupted (the item the server is still streaming) is forwarded to the caller, and such a late delta does not
\* mark the session as speaking again.
C29_LateDeltaDropped ==
    [][\A c \in Calls :
          (/\ session' # session
           /\ last'.call = c
           /\ last'.fn = "response.audio.delta"
           /\ wire[c].barged) =>
              /\ last'.sent = <<>>
              /\ session'[c].is_speaking = session[c].is_speaking]_vars

\* C30: every conversation.item.truncate the bridge sends names an item (the
\* one the server added last) whose audio has started being forwarded to the caller, with audio_end_ms equal to
\* the time elapsed since the first forwarded delta of that item.
C30_TruncateNamesHeardItem ==
    [][\A c \in Calls :
          (last' # last /\ last'.call = c) =>
             \A i \in DOMAIN last'.sent :
                 last'.sent[i].type = "conversation.item.truncate" =>
                    /\ last'.sent[i].item_id = wire[c].item
                    /\ wire[c].heard # NoStart
                    /\ last'.sent[i].audio_end_ms = clock - wire[c].heard]_vars

\* the second item of the call was truncated one millisecond after its first
\* forwarded delta, which came later than the start of the call
C30_TruncatedAfterOneMs ==
    \E c \in Calls :
        /\ last.call = c
        /\ Len(last.sent) > 0
        /\ last.sent[Len(last.sent)]
             = Truncate("item_2", 1)
        /\ wire[c].item = "item_2"
        /\ wire[c].heard = 1
        /\ clock = 2


\* C31: at the end of every turn of the booking and verification flows the step
\* left in the session is a key of the flow's handler table (an absent key
\* reads as the flow's first step), so the next turn goes to a handler
C31_StepIsHandlerKey ==
    \A c \in Calls :
        /\ session[c].flow.booking_step \in BookingHandlers \cup {""}
        /\ session[c].flow.verification_step \in VerificationHandlers \cup {""}

\* C31 (amended): at the end of every turn the booking step is a key of
\* handle_booking's table, and the verification step is a key of
\* handle_verification's table or, in a session that has been verified, "done"
C31_StepIsHandlerKeyOrDone ==
    \A c \in Calls :
        /\ session[c].flow.booking_step \in BookingHandlers \cup {""}
        /\ \/ session[c].flow.verification_step \in VerificationHandlers \cup {""}
           \/ /\ session[c].flow.verification_step = "done"
              /\ session[c].verified

\* a verified caller whose booking turn ended in the KeyError of the
\* availability step
C31_DoneAndBookingTurn ==
    /\ last.fn = "handle_booking"
    /\ last.message = "KeyError"
    /\ \E c \in Calls : /\ session[c].flow.verification_step = "done"
                        /\ session[c].flow.booking_step = "check_availability"

=============================================================================
